---- MODULE Spec2Model ----
(***************************************************************************)
(* Model of CertificatesService (certificate generation, persistence of   *)
(* the certificatePath mirrors and link issuance).  Every await of the    *)
(* service is one step of a request, so that concurrent requests          *)
(* interleave exactly where the code can be suspended.                    *)
(*                                                                         *)
(* Strings that the code inspects (paths, URLs) are sequences of tokens;  *)
(* the empty sequence stands for null/empty, which JavaScript treats the  *)
(* same way in every truthiness test of the service.                      *)
(***************************************************************************)
EXTENDS Integers, Sequences, FiniteSets, TLC

VARIABLES txPath, invPath, bucket, txSaves, calls, req, pdf, totals, digests, ids

vars == <<txPath, invPath, bucket, txSaves, calls, req, pdf, totals, digests, ids>>

\* the variables of CertificatesService
serviceVars == <<txPath, invPath, bucket, txSaves, calls, req>>

\* ------------------------------------------------------------------ bounds
\* total number of requests issued in one behaviour
MaxCalls == 2

\* redirects counted per download (the counter stops there, the redirects do not)
MaxHops == 2

\* confirmed investments of one user in one property
MaxInvestments == 2

\* ------------------------------------------------------------- primitives
NULL == "NULL"
NoPath == <<>>

\* JavaScript truthiness of a string|null column value
Truthy(s) == s # NoPath

\* `${v}` inside a template literal
ToStr(v) == IF v = NULL THEN "null" ELSE v

\* the workers that run requests concurrently
Req == {"r1", "r2"}

\* ------------------------------------------------------------- the tables
\* rows of the transactions table; user/property tell whether the relation
\* loaded with the row is present.  t1 has two investments of its owner and
\* property, t2 and t7 have none, t3 and t6 lack their user, t4 lacks its
\* property, t5 has no userId (the case the code guards on lines 493 and 585);
\* t8 is an earlier completed investment of u1 in p1, t10 is not completed and
\* t11 is not an investment
TransactionRows ==
  { [id |-> "t1", displayCode |-> "TXN-1", userId |-> "u1", propertyId |-> "p1",
     user |-> TRUE, property |-> TRUE,
     type |-> "investment", status |-> "completed", createdAt |-> 5],
    [id |-> "t2", displayCode |-> "TXN-2", userId |-> "u2", propertyId |-> "p1",
     user |-> TRUE, property |-> TRUE,
     type |-> "investment", status |-> "completed", createdAt |-> 2],
    [id |-> "t3", displayCode |-> "TXN-3", userId |-> "u3", propertyId |-> "p1",
     user |-> FALSE, property |-> TRUE,
     type |-> "investment", status |-> "completed", createdAt |-> 3],
    [id |-> "t4", displayCode |-> "TXN-4", userId |-> "u1", propertyId |-> "p3",
     user |-> TRUE, property |-> FALSE,
     type |-> "investment", status |-> "completed", createdAt |-> 4],
    [id |-> "t5", displayCode |-> "TXN-5", userId |-> NULL, propertyId |-> "p1",
     user |-> TRUE, property |-> TRUE,
     type |-> "investment", status |-> "completed", createdAt |-> 6],
    [id |-> "t6", displayCode |-> "TXN-6", userId |-> "u3", propertyId |-> "p1",
     user |-> FALSE, property |-> TRUE,
     type |-> "investment", status |-> "completed", createdAt |-> 7],
    [id |-> "t7", displayCode |-> "TXN-7", userId |-> "u2", propertyId |-> "p2",
     user |-> TRUE, property |-> TRUE,
     type |-> "investment", status |-> "completed", createdAt |-> 8],
    [id |-> "t8", displayCode |-> "TXN-8", userId |-> "u1", propertyId |-> "p1",
     user |-> TRUE, property |-> TRUE,
     type |-> "investment", status |-> "completed", createdAt |-> 1],
    [id |-> "t10", displayCode |-> "TXN-10", userId |-> "u1", propertyId |-> "p1",
     user |-> TRUE, property |-> TRUE,
     type |-> "investment", status |-> "pending", createdAt |-> 9],
    [id |-> "t11", displayCode |-> "TXN-11", userId |-> "u1", propertyId |-> "p1",
     user |-> TRUE, property |-> TRUE,
     type |-> "withdrawal", status |-> "completed", createdAt |-> 10] }

TxIds == { t.id : t \in TransactionRows }

\* rows of the investments table (i2 is the most recent one of u1 in p1, i3 is
\* not confirmed)
InvestmentRows ==
  { [id |-> "i1", userId |-> "u1", propertyId |-> "p1", createdAt |-> 1,
     status |-> "confirmed", tokensPurchased |-> 10],
    [id |-> "i2", userId |-> "u1", propertyId |-> "p1", createdAt |-> 2,
     status |-> "confirmed", tokensPurchased |-> 25],
    [id |-> "i3", userId |-> "u1", propertyId |-> "p2", createdAt |-> 3,
     status |-> "pending", tokensPurchased |-> 0] }

InvIds == { i.id : i \in InvestmentRows }

\* rows of the properties table
PropertyRows ==
  { [id |-> "p1", displayCode |-> "PROP-1"],
    [id |-> "p2", displayCode |-> "PROP-2"] }

\* rows of the users table
UserRows == { [id |-> "u1"], [id |-> "u2"] }

\* the argument strings that match the UUID regular expression
UuidShaped == {"t1", "t2", "t3", "t4", "t5", "t6", "t7", "t9", "p1", "p2", "p9"}

isUuid(s) == s \in UuidShaped

\* ------------------------------------------------------------ repositories
\* transactionRepo.findOne({ where: { id } }): a set with at most one row
TransactionById(id) == { t \in TransactionRows : t.id = id }

TransactionByDisplayCode(code) == { t \in TransactionRows : t.displayCode = code }

\* investmentRepo.findOne({ where: { id } })
InvestmentById(id) == { i \in InvestmentRows : i.id = id }

\* LatestInvestment with the order reversed (createdAt ASC)
LatestInvestment_Oldest(userId, propertyId) ==
  LET m == { i \in InvestmentRows : i.userId = userId /\ i.propertyId = propertyId }
  IN  { i \in m : \A j \in m : i.createdAt <= j.createdAt }

\* investmentRepo.findOne({ where: { userId, propertyId }, order: { createdAt: 'DESC' } })
LatestInvestment(userId, propertyId) ==
  LET m == { i \in InvestmentRows : i.userId = userId /\ i.propertyId = propertyId }
  IN  { i \in m : \A j \in m : j.createdAt <= i.createdAt }

PropertyById(id) == { p \in PropertyRows : p.id = id }

PropertyByDisplayCode(code) == { p \in PropertyRows : p.displayCode = code }

UserById(id) == { u \in UserRows : u.id = id }

\* ConfirmedInvestments without the status filter
ConfirmedInvestments_AnyStatus(userId, propertyId) ==
  { i \in InvestmentRows : i.userId = userId /\ i.propertyId = propertyId }

\* investmentRepo.find({ where: { userId, propertyId, status: 'confirmed' } })
ConfirmedInvestments(userId, propertyId) ==
  { i \in InvestmentRows :
      i.userId = userId /\ i.propertyId = propertyId /\ i.status = "confirmed" }

\* ------------------------------------------------------------ object store
PublicMarker == "/storage/v1/object/public/certificates/"

\* supabaseService.uploadCertificate(filePath, buffer).path
UploadedPathOf(filePath) == filePath

\* supabaseService.getCertificatePublicUrl(path)
getCertificatePublicUrl(path) == <<"https://", "project.supabase.co", PublicMarker>> \o path

\* supabaseService.createSignedUrl(path)
createSignedUrl(path) ==
  <<"https://", "project.supabase.co", "/storage/v1/object/sign/certificates/">>
    \o path \o <<"?token=">>

\* `transactions/${transaction.userId}/${transaction.id}.pdf`
TransactionFilePath(transaction) ==
  <<"transactions/", ToStr(transaction.userId), "/", ToStr(transaction.id), ".pdf">>

\* PortfolioFilePath built from the propertyId argument as given
PortfolioFilePath_RawArgument(userId, propertyId, actualPropertyId) ==
  <<"portfolio/", ToStr(userId), "/", ToStr(propertyId), ".pdf">>

\* `portfolio/${userId}/${actualPropertyId}.pdf`
PortfolioFilePath(userId, propertyId, actualPropertyId) ==
  <<"portfolio/", ToStr(userId), "/", ToStr(actualPropertyId), ".pdf">>

\* ------------------------------------------------------------------ errors
NoError == [name |-> "", message |-> <<>>]

\* new NotFoundException(message)
NotFoundException(message) == [name |-> "NotFoundException", message |-> message]

\* what a rejected repository call throws
QueryFailedError == [name |-> "QueryFailedError", message |-> <<"connection lost">>]

\* what ejs.renderFile / pdfService.generateFromHtml throw
TemplateError == [name |-> "TemplateError", message |-> <<"template not found">>]

PdfError == [name |-> "PdfError", message |-> <<"renderer crashed">>]

\* what the storage client throws on upload / on signing
StorageError == [name |-> "StorageError", message |-> <<"bucket unavailable">>]

SignError == [name |-> "SignError", message |-> <<"sign failed">>]

\* new Error(`Certificate upload failed: ${uploadError.message || uploadError}`)
UploadFailed(uploadError) ==
  [name |-> "Error",
   message |-> <<"Certificate upload failed: ">>
                 \o (IF uploadError.message # <<>> THEN uploadError.message
                     ELSE <<uploadError.name>>)]

\* ---------------------------------------------------------------- requests
NoResult == [certificatePath |-> NoPath, signedUrl |-> NoPath]

IdleReq ==
  [pc |-> "idle", op |-> "none", nested |-> FALSE,
   transactionId |-> NULL, investmentId |-> NULL, userId |-> NULL, propertyId |-> NULL,
   transaction |-> NULL, loadedPath |-> NoPath, branch |-> "none",
   certificatePath |-> NoPath, relativePath |-> NoPath,
   investment |-> NULL, actualPropertyId |-> NULL,
   filePath |-> NoPath, uploadedPath |-> NoPath, fullPublicUrl |-> NoPath,
   result |-> NoResult, error |-> NoError, thrown |-> NoError,
   uploadError |-> NoError,
   tokensPurchased |-> "", rows |-> <<>>, backends |-> <<>>,
   renders |-> 0, uploads |-> 0, signRequests |-> <<>>,
   savedTransactions |-> {}, savedInvestments |-> {}]

\* arguments the callers pass
GenerateArgs ==
  { <<"t1", NULL>>, <<"t1", "i1">>, <<"t1", "i9">>, <<"t2", "i1">>, <<"t2", "i9">>,
    <<"t5", "i1">>, <<"t3", NULL>>, <<"t4", NULL>>, <<"t6", NULL>>, <<"t7", NULL>>,
    <<"t9", NULL>> }

TransactionRefArgs == {"t1", "t3", "t6", "t7", "TXN-2", "TXN-9"}

PortfolioArgs ==
  { <<"u1", "p1">>, <<"u1", "PROP-1">>, <<"u1", "p2">>, <<"u1", "p9">>,
    <<"u1", "PROP-9">>, <<"u9", "p1">> }

\* the row a request has loaded (its transaction local)
Row(r) == CHOOSE t \in TransactionRows : t.id = req[r].transaction

Free(r) == req[r].pc \in {"idle", "done", "failed"}

\* a new request is taken by the first worker that is free
Takes(r) == Free(r) /\ (r = "r2" => ~Free("r1"))

Fail(r, e) == req' = [req EXCEPT ![r].pc = "failed", ![r].error = e]

\* Rethrown replacing the error by a generic one
Rethrown_Generic(error) ==
  IF error.name = "" THEN error
  ELSE [name |-> "InternalServerErrorException", message |-> <<"Internal server error">>]

\* catch (error) { this.logger.error(...); throw error; }
Rethrown(error) == error

\* an error thrown inside the try block of generateTransactionCertificate
FailGenerate(r, e) ==
  req' = [req EXCEPT ![r].pc = "failed", ![r].error = Rethrown(e), ![r].thrown = e]

DbUnchanged == UNCHANGED <<txPath, invPath, bucket, txSaves, calls, pdf, totals, digests, ids>>

\* --------------------------------------------------------------- PdfService
\* The PDFKit renderers (generateTransactionCertificate and
\* generatePortfolioSummary of PdfService) from the page of the stamps on, and
\* downloadFile, which fetches the stamps.  Every HTTP response is one step.
NoUrl == ""

\* the stamp URLs a caller passes, and the Location headers a server sends
StampUrls == {"https://cdn/secp.png", "http://cdn/sbp.png"}

Locations == StampUrls \cup {"https://cdn/moved.png"}

\* url.startsWith('https:') ? https : http
ProtocolOf(url) == IF url \in {"https://cdn/secp.png", "https://cdn/moved.png"}
                   THEN "https" ELSE "http"

\* const stampSize = 120; stampX += stampSize + 40
StampSize == 120

StampGap == 40

\* let stampX = doc.page.width / 2 - 120, kept relative to doc.page.width / 2
StampLeft == 0 - 120

IdlePdf ==
  [pc |-> "idle", kind |-> "none", secpStampUrl |-> NoUrl, sbpStampUrl |-> NoUrl,
   url |-> NoUrl, protocol |-> "none", hops |-> 0, stampX |-> 0,
   page |-> 0, chunks |-> <<>>, images |-> <<>>, warnings |-> <<>>,
   bytes |-> <<>>, error |-> <<>>]

\* the transaction rows handed to generatePortfolioSummary number up to MaxRows
MaxRows == 3

\* Lengths are held in tenths of a point.  size: 'A4' is 841.89pt high
PageHeight == 8419

\* margins: { top: 72, bottom: 72, ... }
MarginTop == 720

MarginBottom == 720

\* doc.page.maxY(): the height of the page less the bottom margin
PageMaxY == PageHeight - MarginBottom

\* doc.currentLineHeight(true): a line is at least as high as the font size
\* (1.156 times for Helvetica); the least value is taken, so every position
\* below is a lower bound of the position PDFKit computes
LineHeight(fontSize) == fontSize * 10

\* .moveDown(lines), lines given in tenths
MoveDown(fontSize, lines) == fontSize * lines

\* const infoBoxHeight = 50
InfoBoxHeight == 500

\* const summaryBoxHeight = 200
SummaryBoxHeight == 2000

\* const rowHeight = 30
RowHeight == 300

\* const investorStartY = doc.y, after the two title lines, the rule and the
\* heading 'Investor Information'
InvestorStartY ==
  MarginTop + LineHeight(32) + MoveDown(32, 3) + LineHeight(14) + MoveDown(14, 5)
    + MoveDown(14, 10) + LineHeight(18) + MoveDown(18, 3)

\* doc.y = investorStartY + infoBoxHeight + 20; heading 'Property Information'
PropertyStartY == InvestorStartY + InfoBoxHeight + 200 + LineHeight(18) + MoveDown(18, 3)

\* doc.y = propertyStartY + (infoBoxHeight * 2) + 30; const summaryBoxY = doc.y
SummaryBoxY == PropertyStartY + (InfoBoxHeight * 2) + 300

\* doc.y = summaryBoxY + summaryBoxHeight + 20; heading 'Transaction History';
\* const tableStartY = doc.y
TableStartY == SummaryBoxY + SummaryBoxHeight + 200 + LineHeight(18) + MoveDown(18, 3)

\* doc.text(cell, { width }): PDFKit's line wrapper; a line that would end
\* below doc.page.maxY() continues on a new page, at the top margin
FlowText(s, fontSize) ==
  IF s.y + LineHeight(fontSize) > PageMaxY
  THEN [page |-> s.page + 1, y |-> MarginTop + LineHeight(fontSize),
        chunks |-> Append(s.chunks, "continueOnNewPage")]
  ELSE [s EXCEPT !.y = @ + LineHeight(fontSize)]

\* one iteration of data.transactions.forEach: doc.y = rowY + 8, then the five
\* cells, each a doc.text at the current doc.y
DrawRow(s, index) ==
  LET rowY == TableStartY + RowHeight + (index * RowHeight)
      start == [s EXCEPT !.y = rowY + 80]
      cells == FlowText(FlowText(FlowText(FlowText(FlowText(start, 12), 12), 12), 12), 12)
  IN  [cells EXCEPT !.chunks = Append(@, "row")]

RECURSIVE DrawRows(_, _, _)
\* data.transactions.forEach((txn, index) => ...)
DrawRows(s, index, length) ==
  IF index >= length THEN s ELSE DrawRows(DrawRow(s, index), index + 1, length)

\* the table: if (data.transactions && data.transactions.length > 0) {
\* heading, header row with its five cells, rows }
DrawTable(s, length) ==
  IF length > 0
  THEN LET header == [s EXCEPT !.y = TableStartY + 80]
           cells ==
             FlowText(FlowText(FlowText(FlowText(FlowText(header, 12), 12), 12), 12), 12)
       IN  DrawRows([cells EXCEPT !.chunks = Append(@, "tableHeader")], 0, length)
  ELSE s

\* the primary content of a document, drawn from the first page on
DrawContent(kind, blockchainHash, length) ==
  LET first == [page |-> 1, y |-> MarginTop, chunks |-> <<kind>>]
  IN  IF kind = "portfolio" THEN DrawTable(first, length)
      ELSE IF blockchainHash THEN [first EXCEPT !.chunks = Append(@, "blockchain")]
      ELSE first

\* doc.addPage(): the page of the stamps
AddPage(s) == [s EXCEPT !.page = @ + 1, !.chunks = Append(@, "addPage")]

\* new Error(`Failed to download file: ${response.statusCode}`)
DownloadFailed(statusCode) == <<"Failed to download file: ", ToString(statusCode)>>

\* this.downloadFile(response.headers.location || url)
RedirectTarget(location, url) == IF location # NoUrl THEN location ELSE url

\* the call of downloadFile(url) for a stamp
StartDownload(p, stamp, url) ==
  [p EXCEPT !.pc = stamp, !.url = url, !.protocol = ProtocolOf(url), !.hops = 0]

\* footer, doc.end(): the 'end' event resolves with the concatenated chunks
Finish(p) ==
  LET chunks == p.chunks \o <<"footer">>
  IN  [p EXCEPT !.pc = "resolved", !.chunks = chunks, !.bytes = chunks,
                !.url = NoUrl, !.protocol = "none"]

\* the statements that follow the try/catch of a stamp
AfterStamp(p, stamp) ==
  IF p.pc = "rejected" THEN p
  ELSE IF stamp = "secp" /\ p.sbpStampUrl # NoUrl
       THEN StartDownload(p, "sbp", p.sbpStampUrl)
       ELSE Finish(p)

\* OnStampError without the try/catch around the stamp: the outer catch rejects
OnStampError_Fatal(p, stamp, error) ==
  [p EXCEPT !.pc = "rejected", !.error = error, !.url = NoUrl, !.protocol = "none"]

\* catch (error) { this.logger.warn('Failed to load ... stamp:', error) }
OnStampError(p, stamp, error) ==
  [p EXCEPT !.warnings = Append(@, <<stamp, error>>)]

\* doc.image(image, stampX, doc.y, ...); stampX += stampSize + 40 (SECP only)
DrawStamp(p, stamp) ==
  [p EXCEPT !.images = Append(@, [stamp |-> stamp, x |-> p.stampX]),
            !.chunks = Append(@, stamp),
            !.stampX = IF stamp = "secp" THEN @ + StampSize + StampGap ELSE @]

\* a caller invokes a renderer; the content is drawn, the page of the stamps
\* is added and the first configured stamp is requested
CallRender(kind, secpStampUrl, sbpStampUrl, blockchainHash, length) ==
  /\ pdf.pc = "idle"
  /\ LET drawn == AddPage(DrawContent(kind, blockchainHash, length))
         p == [IdlePdf EXCEPT !.kind = kind, !.secpStampUrl = secpStampUrl,
                              !.sbpStampUrl = sbpStampUrl, !.stampX = StampLeft,
                              !.page = drawn.page, !.chunks = drawn.chunks]
     IN  pdf' = IF secpStampUrl # NoUrl THEN StartDownload(p, "secp", secpStampUrl)
                ELSE IF sbpStampUrl # NoUrl THEN StartDownload(p, "sbp", sbpStampUrl)
                ELSE Finish(p)
  /\ UNCHANGED <<serviceVars, totals, digests, ids>>

Downloading == pdf.pc \in {"secp", "sbp"}

\* statusCode 301 or 302: downloadFile calls itself on the Location header, or
\* on the same url when the header is absent
RedirectResponse(statusCode, location) ==
  /\ Downloading
  /\ statusCode \in {301, 302}
  /\ pdf' = [pdf EXCEPT !.url = RedirectTarget(location, pdf.url),
                        !.protocol = ProtocolOf(RedirectTarget(location, pdf.url)),
                        !.hops = IF @ < MaxHops THEN @ + 1 ELSE @]
  /\ UNCHANGED <<serviceVars, totals, digests, ids>>

\* any other statusCode than 200: reject, caught by the stamp's catch
FailureResponse(statusCode) ==
  /\ Downloading
  /\ statusCode \notin {200, 301, 302}
  /\ pdf' = AfterStamp(OnStampError(pdf, pdf.pc, DownloadFailed(statusCode)), pdf.pc)
  /\ UNCHANGED <<serviceVars, totals, digests, ids>>

\* the request or the response stream emits 'error'
NetworkError(error) ==
  /\ Downloading
  /\ pdf' = AfterStamp(OnStampError(pdf, pdf.pc, <<error>>), pdf.pc)
  /\ UNCHANGED <<serviceVars, totals, digests, ids>>

\* statusCode 200 and 'end': the buffer is resolved and handed to doc.image,
\* which throws on data that is no image
SuccessResponse(isImage) ==
  /\ Downloading
  /\ pdf' = IF isImage THEN AfterStamp(DrawStamp(pdf, pdf.pc), pdf.pc)
            ELSE AfterStamp(OnStampError(pdf, pdf.pc, <<"Unknown image format.">>), pdf.pc)
  /\ UNCHANGED <<serviceVars, totals, digests, ids>>

\* ------------------------------------------- generatePortfolioSummary totals
\* The aggregation of generatePortfolioSummary (lines 701-744).  A Decimal that
\* is read from a column or is a sum is held in hundredths (Scale); a quotient
\* is held as the fraction n/d, with d = 0 for the Infinity and NaN that
\* Decimal.div returns for a zero divisor.
Scale == 100

NaN == [n |-> 0, d |-> 0]

Infinity == [n |-> 1, d |-> 0]

\* new Decimal(0)
Zero == [n |-> 0, d |-> 1]

\* investments.reduce((sum, inv) => sum.plus(inv.tokensPurchased), new Decimal(0))
RECURSIVE ReduceTokens(_)
ReduceTokens(investments) ==
  IF investments = <<>> THEN 0
  ELSE ReduceTokens(SubSeq(investments, 1, Len(investments) - 1))
         + investments[Len(investments)].tokensPurchased

\* investments.reduce((sum, inv) => sum.plus(inv.amountUSDT), new Decimal(0))
RECURSIVE ReduceAmounts(_)
ReduceAmounts(investments) ==
  IF investments = <<>> THEN 0
  ELSE ReduceAmounts(SubSeq(investments, 1, Len(investments) - 1))
         + investments[Len(investments)].amountUSDT

\* a.div(b) of two Decimals held in hundredths
Div(a, b) ==
  IF b = 0 THEN (IF a = 0 THEN NaN ELSE Infinity) ELSE [n |-> a, d |-> b]

\* q.times(k)
Times(q, k) == IF q.d = 0 THEN q ELSE [n |-> q.n * k, d |-> q.d]

\* AveragePrice without the test of the divisor
AveragePrice_Unguarded(totalInvested, totalTokens) == Div(totalInvested, totalTokens)

\* totalTokens.gt(0) ? totalInvested.div(totalTokens) : new Decimal(0)
AveragePrice(totalInvested, totalTokens) ==
  IF totalTokens > 0 THEN Div(totalInvested, totalTokens) ELSE Zero

\* OwnershipPercentage as a fraction instead of a percentage (no times(100))
OwnershipPercentage_Fraction(totalTokens, propertyTotalTokens) ==
  IF propertyTotalTokens > 0 THEN Div(totalTokens, propertyTotalTokens) ELSE Zero

\* property.totalTokens.gt(0) ? totalTokens.div(property.totalTokens).times(100)
\*                            : new Decimal(0)
OwnershipPercentage(totalTokens, propertyTotalTokens) ==
  IF propertyTotalTokens > 0 THEN Times(Div(totalTokens, propertyTotalTokens), 100)
  ELSE Zero

\* the digits of a non-negative number of hundredths: "<whole>.<d><d>"
Digits(hundredths) ==
  <<ToString(hundredths \div Scale), ".",
    ToString((hundredths % Scale) \div 10), ToString(hundredths % 10)>>

\* q.toFixed(2) of a non-negative quotient: two decimals, rounding half up
ToFixed2(q) ==
  IF q.d = 0 THEN (IF q.n = 0 THEN <<"NaN">> ELSE <<"Infinity">>)
  ELSE Digits((2 * Scale * q.n + q.d) \div (2 * q.d))

\* the inputs of the aggregation
TokenAmounts == {0, 300, 800}

UsdtAmounts == {0, 100, 1000, 2550}

PropertyTotalTokens == {0, 700, 6400}

InvestmentLists ==
  UNION { [1..n -> [tokensPurchased : TokenAmounts, amountUSDT : UsdtAmounts]] :
            n \in 1..MaxInvestments }

IdleTotals ==
  [pc |-> "idle", investments |-> <<>>, propertyTotalTokens |-> 0,
   totalTokens |-> 0, totalInvested |-> 0, averagePrice |-> Zero,
   ownershipPercentage |-> Zero,
   data |-> [averagePrice |-> <<>>, ownershipPercentage |-> <<>>]]

\* the confirmed investments and the property are loaded (at least one
\* investment, or the request has failed with NotFound)
LoadedTotals(investments, propertyTotalTokens) ==
  [IdleTotals EXCEPT !.pc = "loaded", !.investments = investments,
                     !.propertyTotalTokens = propertyTotalTokens]

\* the totals are calculated and the template data is prepared
ComputeTotals ==
  /\ totals.pc = "loaded"
  /\ LET totalTokens == ReduceTokens(totals.investments)
         totalInvested == ReduceAmounts(totals.investments)
         averagePrice == AveragePrice(totalInvested, totalTokens)
         ownershipPercentage == OwnershipPercentage(totalTokens, totals.propertyTotalTokens)
     IN  totals' = [totals EXCEPT
           !.pc = "computed",
           !.totalTokens = totalTokens,
           !.totalInvested = totalInvested,
           !.averagePrice = averagePrice,
           !.ownershipPercentage = ownershipPercentage,
           !.data = [averagePrice |-> ToFixed2(averagePrice),
                     ownershipPercentage |-> ToFixed2(ownershipPercentage)]]
  /\ UNCHANGED <<serviceVars, pdf, digests, ids>>

\* ----------------------------------------------------- generateDocumentHash
\* what amountUSDT?.toString() yields for a null amount; JSON.stringify leaves
\* a property with this value out (every other value is a non-empty text)
Undefined == <<>>

\* a null amountUSDT (amounts are held in hundredths)
NoAmount == 0 - 1

\* Decimal.toString() of a non-negative amount held in hundredths: no
\* trailing zeros, no decimal point for a whole number
DecimalToString(hundredths) ==
  LET whole == ToString(hundredths \div Scale)
      frac == hundredths % Scale
  IN  IF frac = 0 THEN <<whole>>
      ELSE IF frac % 10 = 0 THEN <<whole, ".", ToString(frac \div 10)>>
      ELSE <<whole, ".", ToString(frac \div 10), ToString(frac % 10)>>

\* transaction.amountUSDT?.toString()
AmountString(transaction) ==
  IF transaction.amountUSDT = NoAmount THEN Undefined
  ELSE DecimalToString(transaction.amountUSDT)

\* transaction.createdAt.toISOString() of a time in milliseconds since the epoch
ToISOString(ms) ==
  <<"1970-01-01T00:00:0", ToString(ms \div 1000), ".",
    ToString((ms % 1000) \div 100), ToString((ms % 100) \div 10), ToString(ms % 10), "Z">>

\* JSON.stringify of an object literal: the properties in order, without
\* those whose value is undefined
Stringify(properties) ==
  SelectSeq(properties, LAMBDA property : property[2] # Undefined)

\* crypto.createHash('sha256').update(data).digest('hex'): a digest is
\* determined by the data, and different data give different digests
Sha256(data) == <<"sha256", data>>

\* generateDocumentHash with the status among the hashed properties
generateDocumentHash_WithStatus(transaction) ==
  Sha256(Stringify(<< <<"id", <<transaction.id>> >>,
                      <<"displayCode", <<transaction.displayCode>> >>,
                      <<"userId", <<transaction.userId>> >>,
                      <<"propertyId", <<transaction.propertyId>> >>,
                      <<"amount", AmountString(transaction)>>,
                      <<"createdAt", ToISOString(transaction.createdAt)>>,
                      <<"status", <<transaction.status>> >> >>))

\* generateDocumentHash(transaction)
generateDocumentHash(transaction) ==
  Sha256(Stringify(<< <<"id", <<transaction.id>> >>,
                      <<"displayCode", <<transaction.displayCode>> >>,
                      <<"userId", <<transaction.userId>> >>,
                      <<"propertyId", <<transaction.propertyId>> >>,
                      <<"amount", AmountString(transaction)>>,
                      <<"createdAt", ToISOString(transaction.createdAt)>> >>))

\* the transaction records that are hashed
HashedTransactions ==
  [id : {"t1", "t2"}, displayCode : {"TXN-1"}, userId : {"u1", NULL},
   propertyId : {"p1"}, amountUSDT : {NoAmount, 100000, 100050, 100005},
   createdAt : {999, 1000},
   status : {"pending", "completed"},
   certificatePath : {NoPath, <<"transactions/", "u1", "/", "t1", ".pdf">>},
   metadata : {"none", "retry"}]

NoTransaction ==
  [id |-> NULL, displayCode |-> NULL, userId |-> NULL, propertyId |-> NULL,
   amountUSDT |-> NoAmount, createdAt |-> 0, status |-> "none",
   certificatePath |-> NoPath, metadata |-> "none"]

IdleDigests ==
  [pc |-> "idle", first |-> NoTransaction, second |-> NoTransaction,
   firstHash |-> <<>>, secondHash |-> <<>>, firstAgain |-> <<>>]

\* two transaction records are at hand
LoadedDigests(first, second) ==
  [IdleDigests EXCEPT !.pc = "loaded", !.first = first, !.second = second]

\* generateDocumentHash is called on the first record, on the second one and
\* on the first one again
HashDocuments ==
  /\ digests.pc = "loaded"
  /\ digests' = [digests EXCEPT
       !.pc = "hashed",
       !.firstHash = generateDocumentHash(digests.first),
       !.secondHash = generateDocumentHash(digests.second),
       !.firstAgain = generateDocumentHash(digests.first)]
  /\ UNCHANGED <<serviceVars, pdf, totals, ids>>

\* ------------------------------------------------- certificate identifiers
\* the millisecond clock read by Date.now() runs up to MaxClock
MaxClock == 2

\* the generation events observed
MaxEvents == 3

\* `CERT-${transaction.displayCode}-${Date.now()}`
TransactionCertificateId(displayCode, now) == <<"CERT-", displayCode, "-", ToString(now)>>

\* `PORT-${property.displayCode}-${Date.now()}`
PortfolioCertificateId(displayCode, now) == <<"PORT-", displayCode, "-", ToString(now)>>

\* no template data built yet, the clock at its first value
IdleIds == [now |-> 0, issued |-> <<>>]

\* a millisecond passes
Tick ==
  /\ ids.now < MaxClock
  /\ ids' = [ids EXCEPT !.now = @ + 1]
  /\ UNCHANGED <<serviceVars, pdf, totals, digests>>

\* a fresh render of a transaction certificate builds its templateData
IssueTransactionCertificateId(transaction) ==
  /\ Len(ids.issued) < MaxEvents
  /\ ids' = [ids EXCEPT !.issued = Append(@,
               [kind |-> "transaction", subject |-> transaction.id,
                certificateId |->
                  TransactionCertificateId(transaction.displayCode, ids.now)])]
  /\ UNCHANGED <<serviceVars, pdf, totals, digests>>

\* a portfolio summary builds its templateData
IssuePortfolioCertificateId(property) ==
  /\ Len(ids.issued) < MaxEvents
  /\ ids' = [ids EXCEPT !.issued = Append(@,
               [kind |-> "portfolio", subject |-> property.id,
                certificateId |->
                  PortfolioCertificateId(property.displayCode, ids.now)])]
  /\ UNCHANGED <<serviceVars, pdf, totals, digests>>

\* ---------------------------------------------------------- initial state
\* the certificate paths stored when the service starts: t6 was generated
\* before its user was removed, t7 under the legacy relative-path scheme
StoredPaths ==
  [t \in TxIds |->
     IF t = "t6" THEN getCertificatePublicUrl(<<"transactions/", "u3", "/", "t6", ".pdf">>)
     ELSE IF t = "t7" THEN <<"transactions/", "u2", "/", "t7", ".pdf">>
     ELSE NoPath]

\* the investments of a transaction's owner and property
Matching(t) ==
  { i \in InvestmentRows : i.userId = t.userId /\ i.propertyId = t.propertyId }

ServiceInit ==
  /\ txPath = StoredPaths
  /\ invPath = [i \in InvIds |->
       LET ts == { t \in TransactionRows :
                     Truthy(txPath[t.id]) /\ i \in { m.id : m \in Matching(t) } }
       IN  IF ts = {} THEN NoPath ELSE txPath[(CHOOSE t \in ts : TRUE).id]]
  /\ bucket = {}
  /\ txSaves = [t \in TxIds |-> 0]
  /\ calls = 0
  /\ req = [r \in Req |-> IdleReq]

Init ==
  /\ ServiceInit
  /\ pdf = IdlePdf
  /\ totals = IdleTotals
  /\ digests = IdleDigests
  /\ ids = IdleIds

\* the aggregation starts from any loaded list of investments and property
InitTotals ==
  /\ ServiceInit
  /\ pdf = IdlePdf
  /\ totals \in { LoadedTotals(investments, propertyTotalTokens) :
                    investments \in InvestmentLists,
                    propertyTotalTokens \in PropertyTotalTokens }
  /\ digests = IdleDigests
  /\ ids = IdleIds

\* the hashing starts from any two transaction records
InitDigests ==
  /\ ServiceInit
  /\ pdf = IdlePdf
  /\ totals = IdleTotals
  /\ digests \in { LoadedDigests(first, second) :
                     first \in HashedTransactions, second \in HashedTransactions }
  /\ ids = IdleIds

\* ------------------------------------------ generateTransactionCertificate
\* a caller invokes generateTransactionCertificate(transactionId, investmentId?)
CallGenerateTransactionCertificate(r, transactionId, investmentId) ==
  /\ Takes(r)
  /\ calls < MaxCalls
  /\ calls' = calls + 1
  /\ req' = [req EXCEPT ![r] =
       [IdleReq EXCEPT !.pc = "gen_load", !.op = "generateTransactionCertificate",
                       !.transactionId = transactionId, !.investmentId = investmentId]]
  /\ UNCHANGED <<txPath, invPath, bucket, txSaves, pdf, totals, digests, ids>>

\* AfterLoad without the test of the property relation
AfterLoad_NoPropertyCheck(rows, transactionId, stored) ==
  IF rows = {}
  THEN [pc |-> "failed",
        error |-> NotFoundException(<<"Transaction ", ToStr(transactionId), " not found">>)]
  ELSE LET t == CHOOSE x \in rows : TRUE
       IN  IF ~t.user
           THEN [pc |-> "failed", error |-> NotFoundException(<<"Transaction user not found">>)]
           ELSE IF Truthy(stored)
           THEN [pc |-> "gen_existing_sign", error |-> NoError]
           ELSE IF t.userId # NULL /\ t.propertyId # NULL
           THEN [pc |-> "gen_find_investment", error |-> NoError]
           ELSE [pc |-> "gen_render_html", error |-> NoError]

\* AfterLoad testing the stored certificatePath before the user and property
AfterLoad_ExistingFirst(rows, transactionId, stored) ==
  IF rows = {}
  THEN [pc |-> "failed",
        error |-> NotFoundException(<<"Transaction ", ToStr(transactionId), " not found">>)]
  ELSE LET t == CHOOSE x \in rows : TRUE
       IN  IF Truthy(stored)
           THEN [pc |-> "gen_existing_sign", error |-> NoError]
           ELSE IF ~t.user
           THEN [pc |-> "failed", error |-> NotFoundException(<<"Transaction user not found">>)]
           ELSE IF ~t.property
           THEN [pc |-> "failed",
                 error |-> NotFoundException(<<"Transaction property not found">>)]
           ELSE IF t.userId # NULL /\ t.propertyId # NULL
           THEN [pc |-> "gen_find_investment", error |-> NoError]
           ELSE [pc |-> "gen_render_html", error |-> NoError]

\* AfterLoad without the test of the stored certificatePath (always regenerates)
AfterLoad_NoExistingCheck(rows, transactionId, stored) ==
  IF rows = {}
  THEN [pc |-> "failed",
        error |-> NotFoundException(<<"Transaction ", ToStr(transactionId), " not found">>)]
  ELSE LET t == CHOOSE x \in rows : TRUE
       IN  IF ~t.user
           THEN [pc |-> "failed", error |-> NotFoundException(<<"Transaction user not found">>)]
           ELSE IF ~t.property
           THEN [pc |-> "failed",
                 error |-> NotFoundException(<<"Transaction property not found">>)]
           ELSE IF t.userId # NULL /\ t.propertyId # NULL
           THEN [pc |-> "gen_find_investment", error |-> NoError]
           ELSE [pc |-> "gen_render_html", error |-> NoError]

\* the checks that follow the load of the transaction: where the request
\* goes next, and the error it throws if it stops
AfterLoad(rows, transactionId, stored) ==
  IF rows = {}
  THEN [pc |-> "failed",
        error |-> NotFoundException(<<"Transaction ", ToStr(transactionId), " not found">>)]
  ELSE LET t == CHOOSE x \in rows : TRUE
       IN  IF ~t.user
           THEN [pc |-> "failed", error |-> NotFoundException(<<"Transaction user not found">>)]
           ELSE IF ~t.property
           THEN [pc |-> "failed",
                 error |-> NotFoundException(<<"Transaction property not found">>)]
           ELSE IF Truthy(stored)
           THEN [pc |-> "gen_existing_sign", error |-> NoError]
           ELSE IF t.userId # NULL /\ t.propertyId # NULL
           THEN [pc |-> "gen_find_investment", error |-> NoError]
           ELSE [pc |-> "gen_render_html", error |-> NoError]

\* certificatePath.startsWith('http://') || certificatePath.startsWith('https://')
IsAbsoluteUrl(path) == Len(path) > 0 /\ path[1] \in {"http://", "https://"}

\* the positions of the separator in a tokenised string
MarkerPositions(path) == { k \in 1..Len(path) : path[k] = PublicMarker }

\* SplitSecondPart taking urlParts[0], the part before the separator
SplitSecondPart_FirstPart(path) ==
  LET ks == MarkerPositions(path)
  IN  IF ks = {} THEN path
      ELSE SubSeq(path, 1, (CHOOSE k \in ks : \A j \in ks : k <= j) - 1)

\* certificatePath.split(marker): urlParts.length > 1 ? urlParts[1] : certificatePath
SplitSecondPart(path) ==
  LET ks == MarkerPositions(path)
  IN  IF ks = {} THEN path
      ELSE LET k1 == CHOOSE k \in ks : \A j \in ks : k <= j
               rest == { k \in ks : k > k1 }
               k2 == IF rest = {} THEN Len(path) + 1
                     ELSE CHOOSE k \in rest : \A j \in rest : k <= j
           IN  SubSeq(path, k1 + 1, k2 - 1)

\* the relative path handed to the signer for an already stored certificate
ExistingRelativePath(certificatePath) ==
  IF IsAbsoluteUrl(certificatePath) THEN SplitSecondPart(certificatePath)
  ELSE certificatePath

\* TokensPurchasedText with the default of the portfolio rows ('0')
TokensPurchasedText_Zero(found) ==
  IF found = {} THEN "0" ELSE ToString((CHOOSE i \in found : TRUE).tokensPurchased)

\* investment?.tokensPurchased?.toString() || 'N/A'
TokensPurchasedText(found) ==
  IF found = {} THEN "N/A" ELSE ToString((CHOOSE i \in found : TRUE).tokensPurchased)

\* await transactionRepo.findOne(...), then the checks up to the next await
GenLoadTransaction(r) ==
  /\ req[r].pc = "gen_load"
  /\ DbUnchanged
  /\ \/ FailGenerate(r, QueryFailedError)
     \/ LET rows == TransactionById(req[r].transactionId)
            stored == IF rows = {} THEN NoPath ELSE txPath[(CHOOSE x \in rows : TRUE).id]
            out == AfterLoad(rows, req[r].transactionId, stored)
        IN  req' = [req EXCEPT
              ![r].pc = out.pc,
              ![r].error = Rethrown(out.error), ![r].thrown = out.error,
              ![r].transaction = IF rows = {} THEN NULL ELSE (CHOOSE x \in rows : TRUE).id,
              ![r].loadedPath = stored,
              ![r].branch = IF out.pc = "failed" THEN "none"
                            ELSE IF out.pc = "gen_existing_sign" THEN "existing"
                            ELSE "fresh",
              ![r].certificatePath = stored,
              ![r].relativePath = IF out.pc = "gen_existing_sign"
                                  THEN ExistingRelativePath(stored) ELSE NoPath,
              \* without userId and propertyId the investment stays null
              ![r].tokensPurchased = IF out.pc = "gen_render_html"
                                     THEN TokensPurchasedText({}) ELSE ""]

\* what the already-exists branch returns
ExistingResult(certificatePath, signedUrl) ==
  [certificatePath |-> certificatePath, signedUrl |-> signedUrl]

\* the value returned to the caller of the operation the request started with
Returned(r, result) ==
  IF req[r].nested THEN [certificatePath |-> NoPath, signedUrl |-> result.signedUrl]
  ELSE result

\* await supabaseService.createSignedUrl(relativePath); return
GenExistingSign(r) ==
  /\ req[r].pc = "gen_existing_sign"
  /\ DbUnchanged
  /\ \/ req' = [req EXCEPT ![r].pc = "failed", ![r].error = Rethrown(SignError),
                           ![r].thrown = SignError,
                           ![r].signRequests = Append(@, req[r].relativePath)]
     \/ req' = [req EXCEPT
          ![r].pc = "done",
          ![r].signRequests = Append(@, req[r].relativePath),
          ![r].result = Returned(r, ExistingResult(req[r].certificatePath,
                                        createSignedUrl(req[r].relativePath)))]

\* await investmentRepo.findOne(...) for the template data, then templateData
GenFindInvestment(r) ==
  /\ req[r].pc = "gen_find_investment"
  /\ DbUnchanged
  /\ \/ FailGenerate(r, QueryFailedError)
     \/ req' = [req EXCEPT
          ![r].pc = "gen_render_html",
          ![r].tokensPurchased =
             TokensPurchasedText(LatestInvestment(Row(r).userId, Row(r).propertyId))]

\* await ejs.renderFile(...)
GenRenderHtml(r) ==
  /\ req[r].pc = "gen_render_html"
  /\ DbUnchanged
  /\ \/ req' = [req EXCEPT ![r].pc = "failed", ![r].error = Rethrown(TemplateError),
                           ![r].thrown = TemplateError,
                           ![r].renders = @ + 1]
     \/ req' = [req EXCEPT ![r].pc = "gen_render_pdf", ![r].renders = @ + 1]

\* await pdfService.generateFromHtml(html); then the file path is computed
GenRenderPdf(r) ==
  /\ req[r].pc = "gen_render_pdf"
  /\ DbUnchanged
  /\ \/ req' = [req EXCEPT ![r].pc = "failed", ![r].error = Rethrown(PdfError),
                           ![r].thrown = PdfError,
                           ![r].renders = @ + 1,
                           ![r].backends = Append(@, "generateFromHtml")]
     \/ req' = [req EXCEPT ![r].pc = "gen_upload", ![r].renders = @ + 1,
                           ![r].backends = Append(@, "generateFromHtml"),
                           ![r].filePath = TransactionFilePath(Row(r))]

\* UploadOutcome with a catch block that logs the upload error and goes on
UploadOutcome_Swallowed(filePath, stored, resolved) ==
  [pc |-> "gen_save_transaction", thrown |-> NoError,
   uploadError |-> IF stored /\ resolved THEN NoError ELSE StorageError,
   uploadedPath |-> IF stored THEN UploadedPathOf(filePath) ELSE NoPath,
   fullPublicUrl |-> IF stored /\ resolved
                     THEN getCertificatePublicUrl(UploadedPathOf(filePath)) ELSE NoPath]

\* try { uploadResult = await uploadCertificate(filePath, pdfBuffer);
\*       uploadedPath = uploadResult.path;
\*       fullPublicUrl = getCertificatePublicUrl(uploadedPath) }
\* catch (uploadError) { throw new Error(`Certificate upload failed: ...`) }
UploadOutcome(filePath, stored, resolved) ==
  IF stored /\ resolved
  THEN [pc |-> "gen_save_transaction", thrown |-> NoError, uploadError |-> NoError,
        uploadedPath |-> UploadedPathOf(filePath),
        fullPublicUrl |-> getCertificatePublicUrl(UploadedPathOf(filePath))]
  ELSE [pc |-> "failed", thrown |-> UploadFailed(StorageError),
        uploadError |-> StorageError,
        uploadedPath |-> IF stored THEN UploadedPathOf(filePath) ELSE NoPath,
        fullPublicUrl |-> NoPath]

\* the upload step: the client stores the object or rejects (stored), and the
\* public-URL resolution inside the same try block returns or throws (resolved)
GenUpload(r) ==
  /\ req[r].pc = "gen_upload"
  /\ UNCHANGED <<txPath, invPath, txSaves, calls, pdf, totals, digests, ids>>
  /\ \E stored \in BOOLEAN, resolved \in BOOLEAN :
       /\ bucket' = IF stored THEN bucket \cup {req[r].filePath} ELSE bucket
       /\ LET out == UploadOutcome(req[r].filePath, stored, resolved)
          IN  req' = [req EXCEPT
                ![r].pc = out.pc,
                ![r].error = Rethrown(out.thrown),
                ![r].thrown = out.thrown,
                ![r].uploadError = out.uploadError,
                ![r].uploads = @ + 1,
                ![r].uploadedPath = out.uploadedPath,
                ![r].fullPublicUrl = out.fullPublicUrl]

\* SavedCertificatePath saving the time-bounded signed link
SavedCertificatePath_Signed(fullPublicUrl, uploadedPath, signedUrl) == signedUrl

\* SavedCertificatePath saving the relative object path (the legacy scheme)
SavedCertificatePath_Relative(fullPublicUrl, uploadedPath, signedUrl) == uploadedPath

\* transaction.certificatePath = fullPublicUrl: the value saved in both tables
SavedCertificatePath(fullPublicUrl, uploadedPath, signedUrl) == fullPublicUrl

\* where the request goes once the transaction is saved
AfterSaveTransaction(t, investmentId) ==
  IF t.userId # NULL /\ t.propertyId # NULL
  THEN IF investmentId # NULL THEN "gen_find_by_id" ELSE "gen_find_latest"
  ELSE "gen_sign"

\* await transactionRepo.save(transaction)
GenSaveTransaction(r) ==
  /\ req[r].pc = "gen_save_transaction"
  /\ UNCHANGED <<invPath, bucket, calls, pdf, totals, digests, ids>>
  /\ \/ FailGenerate(r, QueryFailedError) /\ UNCHANGED <<txPath, txSaves>>
     \/ LET t == Row(r)
        IN  /\ txPath' = [txPath EXCEPT ![t.id] =
                 SavedCertificatePath(req[r].fullPublicUrl, req[r].uploadedPath,
                                      createSignedUrl(req[r].uploadedPath))]
            /\ txSaves' = [txSaves EXCEPT ![t.id] = @ + 1]
            /\ req' = [req EXCEPT
                 ![r].pc = AfterSaveTransaction(t, req[r].investmentId),
                 ![r].certificatePath = txPath'[t.id],
                 ![r].savedTransactions = @ \cup {t.id}]

\* where the request goes after the lookup by the supplied investmentId
AfterFindById(found) == IF found # {} THEN "gen_save_investment" ELSE "gen_find_latest"

\* await investmentRepo.findOne({ where: { id: investmentId } })
GenFindInvestmentById(r) ==
  /\ req[r].pc = "gen_find_by_id"
  /\ DbUnchanged
  /\ \/ FailGenerate(r, QueryFailedError)
     \/ LET found == InvestmentById(req[r].investmentId)
        IN  req' = [req EXCEPT
              ![r].pc = AfterFindById(found),
              ![r].investment = IF found # {} THEN (CHOOSE i \in found : TRUE).id ELSE NULL]

\* AfterFindLatest treating an unresolved investment as fatal
AfterFindLatest_Fatal(found) == IF found # {} THEN "gen_save_investment" ELSE "failed"

\* where the request goes after the lookup by owner and property
AfterFindLatest(found) == IF found # {} THEN "gen_save_investment" ELSE "gen_sign"

\* await investmentRepo.findOne({ where: { userId, propertyId }, order: DESC })
GenFindLatestInvestment(r) ==
  /\ req[r].pc = "gen_find_latest"
  /\ DbUnchanged
  /\ \/ FailGenerate(r, QueryFailedError)
     \/ LET found == LatestInvestment(Row(r).userId, Row(r).propertyId)
        IN  req' = [req EXCEPT
              ![r].pc = AfterFindLatest(found),
              ![r].investment = IF found # {} THEN (CHOOSE i \in found : TRUE).id ELSE NULL]

\* investment.certificatePath = fullPublicUrl; await investmentRepo.save(investment)
GenSaveInvestment(r) ==
  /\ req[r].pc = "gen_save_investment"
  /\ UNCHANGED <<txPath, bucket, txSaves, calls, pdf, totals, digests, ids>>
  /\ \/ FailGenerate(r, QueryFailedError) /\ UNCHANGED invPath
     \/ /\ invPath' = [invPath EXCEPT ![req[r].investment] =
             SavedCertificatePath(req[r].fullPublicUrl, req[r].uploadedPath,
                                  createSignedUrl(req[r].uploadedPath))]
        /\ req' = [req EXCEPT ![r].pc = "gen_sign",
                              ![r].savedInvestments = @ \cup {req[r].investment}]

\* return { certificatePath: fullPublicUrl, signedUrl }
FreshResult(fullPublicUrl, uploadedPath, signedUrl) ==
  [certificatePath |-> fullPublicUrl, signedUrl |-> signedUrl]

\* await supabaseService.createSignedUrl(uploadedPath); return
GenSign(r) ==
  /\ req[r].pc = "gen_sign"
  /\ DbUnchanged
  /\ \/ req' = [req EXCEPT ![r].pc = "failed", ![r].error = Rethrown(SignError),
                           ![r].thrown = SignError,
                           ![r].signRequests = Append(@, req[r].uploadedPath)]
     \/ req' = [req EXCEPT
          ![r].pc = "done",
          ![r].signRequests = Append(@, req[r].uploadedPath),
          ![r].result = Returned(r, FreshResult(req[r].fullPublicUrl, req[r].uploadedPath,
                                      createSignedUrl(req[r].uploadedPath)))]

\* ------------------------------------------------- getTransactionCertificate
CallGetTransactionCertificate(r, transactionId) ==
  /\ Takes(r)
  /\ calls < MaxCalls
  /\ calls' = calls + 1
  /\ req' = [req EXCEPT ![r] =
       [IdleReq EXCEPT !.pc = "get_load", !.op = "getTransactionCertificate",
                       !.transactionId = transactionId]]
  /\ UNCHANGED <<txPath, invPath, bucket, txSaves, pdf, totals, digests, ids>>

\* the lookup by id for a UUID-shaped argument, by display code otherwise
FindTransactionRef(transactionId) ==
  IF isUuid(transactionId) THEN TransactionById(transactionId)
  ELSE TransactionByDisplayCode(transactionId)

\* the path handed to the signer by getTransactionCertificate
StoredRelativePath(certificatePath) ==
  IF IsAbsoluteUrl(certificatePath) THEN SplitSecondPart(certificatePath)
  ELSE certificatePath

\* AfterGetLoad calling the generation whatever is stored
AfterGetLoad_AlwaysGenerate(stored) == "gen_load"

\* if (!transaction.certificatePath) generate, else sign the stored path
AfterGetLoad(stored) == IF ~Truthy(stored) THEN "gen_load" ELSE "get_sign"

\* await transactionRepo.findOne(...), then the checks up to the next await
GetLoadTransaction(r) ==
  /\ req[r].pc = "get_load"
  /\ DbUnchanged
  /\ \/ Fail(r, QueryFailedError)
     \/ LET rows == FindTransactionRef(req[r].transactionId)
        IN  IF rows = {}
            THEN Fail(r, NotFoundException(
                   <<"Transaction ", ToStr(req[r].transactionId), " not found">>))
            ELSE LET t == CHOOSE x \in rows : TRUE
                 IN  IF AfterGetLoad(txPath[t.id]) = "gen_load"
                     THEN \* this.generateTransactionCertificate(actualTransactionId)
                          req' = [req EXCEPT ![r].pc = "gen_load", ![r].nested = TRUE,
                                             ![r].transactionId = t.id,
                                             ![r].investmentId = NULL]
                     ELSE req' = [req EXCEPT
                            ![r].pc = "get_sign",
                            ![r].transaction = t.id,
                            ![r].loadedPath = txPath[t.id],
                            ![r].branch = "existing",
                            ![r].certificatePath = txPath[t.id],
                            ![r].relativePath = StoredRelativePath(txPath[t.id])]

\* return await this.supabaseService.createSignedUrl(relativePath)
GetSign(r) ==
  /\ req[r].pc = "get_sign"
  /\ DbUnchanged
  /\ \/ req' = [req EXCEPT ![r].pc = "failed", ![r].error = SignError,
                           ![r].signRequests = Append(@, req[r].relativePath)]
     \/ req' = [req EXCEPT
          ![r].pc = "done",
          ![r].signRequests = Append(@, req[r].relativePath),
          ![r].result = [certificatePath |-> NoPath,
                         signedUrl |-> createSignedUrl(req[r].relativePath)]]

\* -------------------------------------------------- generatePortfolioSummary
CallGeneratePortfolioSummary(r, userId, propertyId) ==
  /\ Takes(r)
  /\ calls < MaxCalls
  /\ calls' = calls + 1
  /\ req' = [req EXCEPT ![r] =
       [IdleReq EXCEPT !.pc = "pf_load_user", !.op = "generatePortfolioSummary",
                       !.userId = userId, !.propertyId = propertyId]]
  /\ UNCHANGED <<txPath, invPath, bucket, txSaves, pdf, totals, digests, ids>>

\* await userRepo.findOne({ where: { id: userId } }); if (!user) throw
PortfolioLoadUser(r) ==
  /\ req[r].pc = "pf_load_user"
  /\ DbUnchanged
  /\ \/ Fail(r, QueryFailedError)
     \/ IF UserById(req[r].userId) = {}
        THEN Fail(r, NotFoundException(<<"User ", ToStr(req[r].userId), " not found">>))
        ELSE req' = [req EXCEPT ![r].pc = "pf_load_property"]

\* the lookup by id for a UUID-shaped argument, by display code otherwise
FindPropertyRef(propertyId) ==
  IF isUuid(propertyId) THEN PropertyById(propertyId)
  ELSE PropertyByDisplayCode(propertyId)

\* await propertyRepo.findOne(...); if (!property) throw; actualPropertyId = property.id
PortfolioLoadProperty(r) ==
  /\ req[r].pc = "pf_load_property"
  /\ DbUnchanged
  /\ \/ Fail(r, QueryFailedError)
     \/ LET rows == FindPropertyRef(req[r].propertyId)
        IN  IF rows = {}
            THEN Fail(r, NotFoundException(
                   <<"Property ", ToStr(req[r].propertyId), " not found">>))
            ELSE req' = [req EXCEPT ![r].pc = "pf_find_investments",
                                    ![r].actualPropertyId = (CHOOSE x \in rows : TRUE).id]

\* order: { createdAt: 'ASC' } returning the rows newest first
SortedByCreatedAt_Desc(rows) ==
  CHOOSE s \in [1..Cardinality(rows) -> rows] :
    /\ \A k, l \in DOMAIN s : k # l => s[k] # s[l]
    /\ \A k, l \in DOMAIN s : k < l => s[k].createdAt >= s[l].createdAt

\* order: { createdAt: 'ASC' }: the rows of a find as a list, oldest first
SortedByCreatedAt(rows) ==
  CHOOSE s \in [1..Cardinality(rows) -> rows] :
    /\ \A k, l \in DOMAIN s : k # l => s[k] # s[l]
    /\ \A k, l \in DOMAIN s : k < l => s[k].createdAt <= s[l].createdAt

\* transactionRepo.find({ where: { userId, propertyId, type: 'investment',
\*                                 status: 'completed' } })
CompletedInvestmentTransactions(userId, propertyId) ==
  { t \in TransactionRows :
      /\ t.userId = userId /\ t.propertyId = propertyId
      /\ t.type = "investment" /\ t.status = "completed" }

\* investments.find((inv) => inv.userId === txn.userId &&
\*                           inv.propertyId === txn.propertyId)
RelatedInvestment(investments, txn) ==
  LET ks == { k \in DOMAIN investments :
                /\ investments[k].userId = txn.userId
                /\ investments[k].propertyId = txn.propertyId }
  IN  IF ks = {} THEN {} ELSE {investments[CHOOSE k \in ks : \A j \in ks : k <= j]}

\* the row of the transaction table built by transactions.map(...):
\* tokens: relatedInvestment?.tokensPurchased?.toString() || '0'
PortfolioRow(investments, txn) ==
  LET related == RelatedInvestment(investments, txn)
  IN  [displayCode |-> txn.displayCode,
       tokens |-> IF related = {} THEN "0"
                  ELSE ToString((CHOOSE i \in related : TRUE).tokensPurchased)]

\* templateData.transactions
PortfolioRows(userId, propertyId) ==
  LET investments == SortedByCreatedAt(ConfirmedInvestments(userId, propertyId))
      transactions == SortedByCreatedAt(CompletedInvestmentTransactions(userId, propertyId))
  IN  [k \in DOMAIN transactions |-> PortfolioRow(investments, transactions[k])]

\* investments.length === 0
NoInvestments(investments) == investments = {}

\* await investmentRepo.find({ ... status: 'confirmed' }); if none, throw
PortfolioFindInvestments(r) ==
  /\ req[r].pc = "pf_find_investments"
  /\ DbUnchanged
  /\ \/ Fail(r, QueryFailedError)
     \/ IF NoInvestments(ConfirmedInvestments(req[r].userId, req[r].actualPropertyId))
        THEN Fail(r, NotFoundException(<<"No investments found for this property">>))
        ELSE req' = [req EXCEPT ![r].pc = "pf_find_transactions"]

\* await transactionRepo.find({ ... type: 'investment', status: 'completed' })
PortfolioFindTransactions(r) ==
  /\ req[r].pc = "pf_find_transactions"
  /\ DbUnchanged
  /\ \/ Fail(r, QueryFailedError)
     \/ req' = [req EXCEPT
          ![r].pc = "pf_render_html",
          ![r].rows = PortfolioRows(req[r].userId, req[r].actualPropertyId)]

\* await ejs.renderFile(...)
PortfolioRenderHtml(r) ==
  /\ req[r].pc = "pf_render_html"
  /\ DbUnchanged
  /\ \/ req' = [req EXCEPT ![r].pc = "failed", ![r].error = TemplateError,
                           ![r].renders = @ + 1]
     \/ req' = [req EXCEPT ![r].pc = "pf_render_pdf", ![r].renders = @ + 1]

\* await pdfService.generateFromHtml(html); then the file path is computed
PortfolioRenderPdf(r) ==
  /\ req[r].pc = "pf_render_pdf"
  /\ DbUnchanged
  /\ \/ req' = [req EXCEPT ![r].pc = "failed", ![r].error = PdfError,
                           ![r].renders = @ + 1,
                           ![r].backends = Append(@, "generateFromHtml")]
     \/ req' = [req EXCEPT
          ![r].pc = "pf_upload", ![r].renders = @ + 1,
          ![r].backends = Append(@, "generateFromHtml"),
          ![r].filePath = PortfolioFilePath(req[r].userId, req[r].propertyId,
                                         req[r].actualPropertyId)]

\* await uploadCertificate(filePath, pdfBuffer); getCertificatePublicUrl(uploadedPath)
PortfolioUpload(r) ==
  /\ req[r].pc = "pf_upload"
  /\ UNCHANGED <<txPath, invPath, txSaves, calls, pdf, totals, digests, ids>>
  /\ \/ /\ req' = [req EXCEPT ![r].pc = "failed", ![r].error = StorageError,
                              ![r].uploadError = StorageError,
                              ![r].uploads = @ + 1]
        /\ UNCHANGED <<bucket>>
     \/ /\ bucket' = bucket \cup {req[r].filePath}
        /\ req' = [req EXCEPT
             ![r].pc = "pf_sign",
             ![r].uploads = @ + 1,
             ![r].uploadedPath = UploadedPathOf(req[r].filePath),
             ![r].fullPublicUrl = getCertificatePublicUrl(UploadedPathOf(req[r].filePath))]

\* await supabaseService.createSignedUrl(uploadedPath); return
PortfolioSign(r) ==
  /\ req[r].pc = "pf_sign"
  /\ DbUnchanged
  /\ \/ req' = [req EXCEPT ![r].pc = "failed", ![r].error = SignError,
                           ![r].signRequests = Append(@, req[r].uploadedPath)]
     \/ req' = [req EXCEPT
          ![r].pc = "done",
          ![r].signRequests = Append(@, req[r].uploadedPath),
          ![r].result = FreshResult(req[r].fullPublicUrl, req[r].uploadedPath,
                                    createSignedUrl(req[r].uploadedPath))]

\* ------------------------------------------------------------ specification
Next ==
  \E r \in Req :
    \/ \E a \in GenerateArgs : CallGenerateTransactionCertificate(r, a[1], a[2])
    \/ GenLoadTransaction(r)
    \/ GenExistingSign(r)
    \/ GenFindInvestment(r)
    \/ GenRenderHtml(r)
    \/ GenRenderPdf(r)
    \/ GenUpload(r)
    \/ GenSaveTransaction(r)
    \/ GenFindInvestmentById(r)
    \/ GenFindLatestInvestment(r)
    \/ GenSaveInvestment(r)
    \/ GenSign(r)
    \/ \E t \in TransactionRefArgs : CallGetTransactionCertificate(r, t)
    \/ GetLoadTransaction(r)
    \/ GetSign(r)
    \/ \E a \in PortfolioArgs : CallGeneratePortfolioSummary(r, a[1], a[2])
    \/ PortfolioLoadUser(r)
    \/ PortfolioLoadProperty(r)
    \/ PortfolioFindInvestments(r)
    \/ PortfolioFindTransactions(r)
    \/ PortfolioRenderHtml(r)
    \/ PortfolioRenderPdf(r)
    \/ PortfolioUpload(r)
    \/ PortfolioSign(r)

Spec == Init /\ [][Next]_vars

\* a render of PdfService with the responses of the stamp servers
NextPdf ==
  \/ \E secp, sbp \in StampUrls \cup {NoUrl} :
       \/ \E blockchainHash \in BOOLEAN :
            CallRender("transaction", secp, sbp, blockchainHash, 0)
       \/ \E length \in 0..MaxRows :
            CallRender("portfolio", secp, sbp, FALSE, length)
  \/ \E statusCode \in {301, 302}, location \in Locations \cup {NoUrl} :
       RedirectResponse(statusCode, location)
  \/ \E statusCode \in {303, 404, 500} : FailureResponse(statusCode)
  \/ \E error \in {"ECONNRESET", "aborted"} : NetworkError(error)
  \/ \E isImage \in BOOLEAN : SuccessResponse(isImage)

SpecPdf == Init /\ [][NextPdf]_vars

\* every response that is due arrives: the event loop runs the callbacks
SpecPdfFair == SpecPdf /\ WF_vars(NextPdf)

\* the aggregation of generatePortfolioSummary on every input
NextTotals == ComputeTotals

SpecTotals == InitTotals /\ [][NextTotals]_vars

\* generateDocumentHash on every pair of records
NextDigests == HashDocuments

SpecDigests == InitDigests /\ [][NextDigests]_vars

\* the certificate identifiers of successive and concurrent generations: any
\* number of renders may build their templateData within one millisecond
NextIds ==
  \/ Tick
  \/ \E transaction \in { t \in TransactionRows : t.user /\ t.property } :
       IssueTransactionCertificateId(transaction)
  \/ \E property \in PropertyRows : IssuePortfolioCertificateId(property)

SpecIds == Init /\ [][NextIds]_vars

\* ------------------------------------------------------------------ claims
\* the requests that run the code of generateTransactionCertificate (called
\* directly, or from getTransactionCertificate)
RunsGenerate(r) == req[r].op = "generateTransactionCertificate" \/ req[r].nested

PastLoad(r) == RunsGenerate(r) /\ req[r].pc \notin {"idle", "get_load", "gen_load"}

\* the transaction exists, with its user and its property
ValidTarget(r) ==
  \E t \in TransactionRows : t.id = req[r].transactionId /\ t.user /\ t.property

\* C1: a generateTransactionCertificate call that loads a transaction (user and
\* property present) with a stored certificatePath renders nothing, uploads
\* nothing, writes nothing and returns the stored value as certificatePath;
\* two such calls for the same transaction return the same value.
C1_Idempotent ==
  /\ \A r \in Req :
       (PastLoad(r) /\ ValidTarget(r) /\ Truthy(req[r].loadedPath)) =>
         /\ req[r].pc \in {"gen_existing_sign", "done", "failed"}
         /\ req[r].renders = 0
         /\ req[r].uploads = 0
         /\ req[r].savedTransactions = {}
         /\ req[r].savedInvestments = {}
         /\ (req[r].pc = "done" /\ ~req[r].nested) =>
              /\ req[r].result.certificatePath = req[r].loadedPath
              /\ req[r].result.certificatePath = txPath[req[r].transaction]
  /\ \A r1, r2 \in Req :
       ( /\ req[r1].op = "generateTransactionCertificate"
         /\ req[r2].op = "generateTransactionCertificate"
         /\ req[r1].pc = "done" /\ req[r2].pc = "done"
         /\ req[r1].branch = "existing" /\ req[r2].branch = "existing"
         /\ req[r1].transaction = req[r2].transaction ) =>
         req[r1].result.certificatePath = req[r2].result.certificatePath

\* two calls for the same stored certificate have both returned
C1_Witness ==
  /\ req["r1"].op = "generateTransactionCertificate"
  /\ req["r2"].op = "generateTransactionCertificate"
  /\ req["r1"].pc = "done" /\ req["r2"].pc = "done"
  /\ req["r1"].branch = "existing" /\ req["r2"].branch = "existing"
  /\ req["r1"].transaction = req["r2"].transaction
  /\ req["r1"].result.certificatePath = txPath[req["r1"].transaction]

\* C2: whenever no request is in flight, every investment of the owner and
\* property of a transaction with a stored certificatePath holds the same
\* certificatePath as the transaction.
C2_MirrorConsistency ==
  (\A r \in Req : Free(r)) =>
    \A t \in TransactionRows : \A i \in Matching(t) :
      Truthy(txPath[t.id]) => invPath[i.id] = txPath[t.id]

\* C3 (as claimed): a transaction's certificatePath is saved only while it is
\* null, hence at most once.
C3_WrittenAtMostOnce ==
  [][\A t \in TxIds : txSaves'[t] # txSaves[t] => ~Truthy(txPath[t])]_vars

\* C3 (amended): once non-null, a transaction's certificatePath is never
\* cleared and never changes value, although it can be saved again.
C3_NeverChangesOnceSet ==
  [][\A t \in TxIds : Truthy(txPath[t]) => txPath'[t] = txPath[t]]_vars

\* a transaction's certificatePath has been saved twice
C3_Witness == \E t \in TxIds : txSaves[t] = 2 /\ Truthy(txPath[t])

\* a request generated afresh and got as far as a successful upload
Uploaded(r) == RunsGenerate(r) /\ req[r].branch = "fresh" /\ Truthy(req[r].uploadedPath)

\* C4: two requests that both generate the same transaction afresh upload to
\* the same object path; when both have completed, the stored certificatePath
\* is the one public URL that both return.
C4_ToleratedRace ==
  \A r1, r2 \in Req :
    (r1 # r2 /\ Uploaded(r1) /\ Uploaded(r2)
       /\ req[r1].transaction = req[r2].transaction) =>
      /\ req[r1].filePath = req[r2].filePath
      /\ req[r1].uploadedPath = req[r2].uploadedPath
      /\ (req[r1].pc = "done" /\ req[r2].pc = "done") =>
           /\ txPath[req[r1].transaction] = req[r1].fullPublicUrl
           /\ txPath[req[r1].transaction] = req[r2].fullPublicUrl
           /\ \A r \in {r1, r2} :
                ~req[r].nested => req[r].result.certificatePath = txPath[req[r].transaction]

\* both requests passed the existence check, saved the path and completed
C4_Witness ==
  /\ req["r1"].op = "generateTransactionCertificate"
  /\ req["r2"].op = "generateTransactionCertificate"
  /\ req["r1"].transaction = req["r2"].transaction
  /\ req["r1"].pc = "done" /\ req["r2"].pc = "done"
  /\ req["r1"].branch = "fresh" /\ req["r2"].branch = "fresh"
  /\ req["r1"].savedTransactions # {} /\ req["r2"].savedTransactions # {}

\* a request that generates afresh for a transaction with owner and property ids
FreshWithIds(r) ==
  /\ RunsGenerate(r)
  /\ req[r].branch = "fresh"
  /\ Row(r).userId # NULL /\ Row(r).propertyId # NULL

\* the investment the resolution order designates for a request
Designated(r) ==
  IF req[r].investmentId # NULL /\ (\E i \in InvestmentRows : i.id = req[r].investmentId)
  THEN {req[r].investmentId}
  ELSE { i.id : i \in { m \in Matching(Row(r)) :
                          \A j \in Matching(Row(r)) : j.createdAt <= m.createdAt } }

\* the resolution of the investment is over for the request
Resolved(r) ==
  \/ req[r].pc \in {"gen_sign", "done"}
  \/ req[r].pc = "failed" /\ req[r].signRequests # <<>>

\* C5: a fresh generation saves the path to the investment with the supplied
\* investmentId when that investment exists, else to the most recently created
\* investment of the transaction's owner and property, and to no other one.
C5_ResolutionOrder ==
  /\ [](\A r \in Req : FreshWithIds(r) =>
          /\ req[r].savedInvestments \subseteq Designated(r)
          /\ Resolved(r) => req[r].savedInvestments = Designated(r))
  /\ [][\A i \in InvIds : invPath'[i] # invPath[i] =>
          \E r \in Req : /\ FreshWithIds(r)
                         /\ req[r].pc = "gen_save_investment"
                         /\ req'[r].pc = "gen_sign"
                         /\ i \in Designated(r)]_vars

\* one request saved the investment it was given, another one, given an
\* unknown id, saved the most recent investment of the owner and property
C5_Witness ==
  \E r1, r2 \in Req :
    /\ FreshWithIds(r1) /\ req[r1].pc = "done"
    /\ req[r1].investmentId = "i1" /\ req[r1].savedInvestments = {"i1"}
    /\ FreshWithIds(r2) /\ req[r2].pc = "done"
    /\ req[r2].investmentId = "i9" /\ req[r2].savedInvestments = {"i2"}

\* no investment can be resolved for the request
Unresolvable(r) ==
  \/ Row(r).userId = NULL
  \/ Row(r).propertyId = NULL
  \/ /\ ~(\E i \in InvestmentRows : i.id = req[r].investmentId)
     /\ Matching(Row(r)) = {}

\* the failures of the collaborators (repositories, renderers, object store)
CollaboratorErrors ==
  {QueryFailedError, TemplateError, PdfError, UploadFailed(StorageError), SignError}

\* C6: when no investment can be resolved, the fresh generation never saves an
\* investment and never fails because of it: it goes on to the signed link
\* with the transaction's path set to the public URL, and returns the stored
\* URL and a signed URL.
C6_UnresolvedMirrorNonFatal ==
  \A r \in Req :
    (RunsGenerate(r) /\ req[r].branch = "fresh" /\ Unresolvable(r)) =>
      /\ req[r].savedInvestments = {}
      /\ req[r].pc # "gen_save_investment"
      /\ req[r].pc = "failed" => req[r].error \in CollaboratorErrors
      /\ req[r].pc \in {"gen_sign", "done"} =>
           /\ Truthy(req[r].fullPublicUrl)
           /\ txPath[req[r].transaction] = req[r].fullPublicUrl
      /\ (req[r].pc = "done" /\ ~req[r].nested) =>
           /\ req[r].result.certificatePath = txPath[req[r].transaction]
           /\ req[r].result.signedUrl = createSignedUrl(req[r].uploadedPath)

\* a generation given an unknown investmentId for a transaction whose owner
\* has no investment in the property has completed
C6_Witness ==
  \E r \in Req :
    /\ req[r].op = "generateTransactionCertificate"
    /\ req[r].branch = "fresh" /\ req[r].pc = "done"
    /\ req[r].investmentId = "i9"
    /\ Row(r).userId # NULL /\ Matching(Row(r)) = {}
    /\ Truthy(txPath[req[r].transaction])
    /\ invPath = [i \in InvIds |-> NoPath]

\* C7: after a successful fresh generation the transaction's stored path is the
\* public URL of the uploaded object (not the signed URL, not the relative
\* path), the returned certificatePath is that stored URL and the returned
\* signedUrl is a signed link requested for the uploaded path; an investment
\* path is only ever set to such a public URL.
C7_PublicUrlPersisted ==
  /\ [](\A r \in Req :
          (RunsGenerate(r) /\ req[r].branch = "fresh" /\ req[r].pc = "done") =>
            /\ req[r].uploadedPath \in bucket
            /\ txPath[req[r].transaction] = getCertificatePublicUrl(req[r].uploadedPath)
            /\ txPath[req[r].transaction] # createSignedUrl(req[r].uploadedPath)
            /\ txPath[req[r].transaction] # req[r].uploadedPath
            /\ req[r].signRequests = <<req[r].uploadedPath>>
            /\ req[r].result.signedUrl = createSignedUrl(req[r].uploadedPath)
            /\ ~req[r].nested =>
                 req[r].result.certificatePath = txPath[req[r].transaction])
  /\ [][\A i \in InvIds : invPath'[i] # invPath[i] =>
          \E r \in Req : /\ req[r].pc = "gen_save_investment"
                         /\ req[r].uploadedPath \in bucket
                         /\ invPath'[i] = getCertificatePublicUrl(req[r].uploadedPath)]_vars

\* a fresh generation has completed after saving both records
C7_Witness ==
  \E r \in Req :
    /\ req[r].op = "generateTransactionCertificate"
    /\ req[r].branch = "fresh" /\ req[r].pc = "done"
    /\ req[r].savedInvestments # {}
    /\ \A i \in req[r].savedInvestments : invPath[i] = txPath[req[r].transaction]

\* the properties a propertyId argument names (by id or by display code)
Named(propertyId) ==
  { p \in PropertyRows : p.id = propertyId \/ p.displayCode = propertyId }

\* C8: the upload path of a transaction certificate is
\* transactions/{transaction.userId}/{transaction.id}.pdf, that of a portfolio
\* summary is portfolio/{userId}/{property.id}.pdf with the id of the property
\* the argument names (by id or by display code); what is stored in the bucket
\* is stored under that path, and two requests for the same target use the
\* same path.
C8_UploadPath ==
  /\ \A r \in Req :
       Truthy(req[r].filePath) =>
         /\ RunsGenerate(r) =>
              req[r].filePath =
                <<"transactions/", ToStr(Row(r).userId), "/", req[r].transactionId, ".pdf">>
         /\ req[r].op = "generatePortfolioSummary" =>
              \E p \in Named(req[r].propertyId) :
                req[r].filePath = <<"portfolio/", req[r].userId, "/", p.id, ".pdf">>
         /\ Truthy(req[r].uploadedPath) => req[r].filePath \in bucket
  /\ \A r1, r2 \in Req :
       ( /\ Truthy(req[r1].filePath) /\ Truthy(req[r2].filePath)
         /\ \/ /\ RunsGenerate(r1) /\ RunsGenerate(r2)
               /\ req[r1].transactionId = req[r2].transactionId
            \/ /\ req[r1].op = "generatePortfolioSummary"
               /\ req[r2].op = "generatePortfolioSummary"
               /\ req[r1].userId = req[r2].userId
               /\ Named(req[r1].propertyId) = Named(req[r2].propertyId) ) =>
         req[r1].filePath = req[r2].filePath

\* two portfolio requests, one naming the property by id and one by display
\* code, have uploaded to the same path
C8_Witness ==
  \E r1, r2 \in Req :
    /\ req[r1].op = "generatePortfolioSummary" /\ req[r1].propertyId = "p1"
    /\ req[r2].op = "generatePortfolioSummary" /\ req[r2].propertyId = "PROP-1"
    /\ Truthy(req[r1].uploadedPath) /\ Truthy(req[r2].uploadedPath)
    /\ req[r1].filePath = req[r2].filePath
    /\ bucket = {req[r1].filePath}

\* the transaction named by the request is missing, or its user, or its property
MissingTarget(r) ==
  \A t \in TransactionRows : t.id = req[r].transactionId => (~t.user \/ ~t.property)

\* C9: generateTransactionCertificate on a missing transaction, or on one whose
\* user or property is missing, stops at the load with NotFound (unless the
\* lookup itself was rejected) without any render, upload, signed-link request
\* or save.
C9_NotFoundNoEffect ==
  \A r \in Req :
    (PastLoad(r) /\ MissingTarget(r)) =>
      /\ req[r].pc = "failed"
      /\ req[r].error.name \in {"NotFoundException", "QueryFailedError"}
      /\ req[r].renders = 0
      /\ req[r].uploads = 0
      /\ req[r].signRequests = <<>>
      /\ req[r].savedTransactions = {}
      /\ req[r].savedInvestments = {}
      /\ req[r].result = NoResult

\* one request failed on a missing property, another on a missing transaction
C9_Witness ==
  \E r1, r2 \in Req :
    /\ req[r1].op = "generateTransactionCertificate" /\ req[r1].transactionId = "t4"
    /\ req[r1].pc = "failed" /\ req[r1].error.name = "NotFoundException"
    /\ req[r2].op = "generateTransactionCertificate" /\ req[r2].transactionId = "t9"
    /\ req[r2].pc = "failed" /\ req[r2].error.name = "NotFoundException"
    /\ bucket = {}

\* the user of a portfolio request is missing
MissingUser(r) == ~(\E u \in UserRows : u.id = req[r].userId)

\* no property has the argument as id (UUID-shaped argument) or as display code
MissingProperty(r) ==
  ~(\E p \in PropertyRows :
      IF req[r].propertyId \in UuidShaped THEN p.id = req[r].propertyId
      ELSE p.displayCode = req[r].propertyId)

\* the user has no confirmed investment in the property the argument names
NoConfirmed(r) ==
  \A p \in Named(req[r].propertyId) :
    ~(\E i \in InvestmentRows :
        i.userId = req[r].userId /\ i.propertyId = p.id /\ i.status = "confirmed")

\* C10: generatePortfolioSummary stops with NotFound (unless a lookup itself
\* was rejected) when the user is missing, when the property is missing, or
\* when the user has no confirmed investment in it; nothing is rendered or
\* uploaded in these cases.
C10_PortfolioNotFound ==
  \A r \in Req :
    (req[r].op = "generatePortfolioSummary"
       /\ (MissingUser(r) \/ MissingProperty(r) \/ NoConfirmed(r))) =>
      /\ MissingUser(r) => req[r].pc \in {"pf_load_user", "failed"}
      /\ MissingProperty(r) => req[r].pc \in {"pf_load_user", "pf_load_property", "failed"}
      /\ req[r].pc \in {"pf_load_user", "pf_load_property", "pf_find_investments", "failed"}
      /\ req[r].pc = "failed" =>
           req[r].error.name \in {"NotFoundException", "QueryFailedError"}
      /\ req[r].renders = 0
      /\ req[r].uploads = 0
      /\ req[r].signRequests = <<>>
      /\ req[r].result = NoResult

\* one request failed for want of a confirmed investment (only a pending one
\* exists), another on an unknown display code
C10_Witness ==
  \E r1, r2 \in Req :
    /\ req[r1].op = "generatePortfolioSummary"
    /\ req[r1].userId = "u1" /\ req[r1].propertyId = "p2"
    /\ req[r1].pc = "failed" /\ req[r1].error.name = "NotFoundException"
    /\ req[r2].op = "generatePortfolioSummary"
    /\ req[r2].userId = "u1" /\ req[r2].propertyId = "PROP-9"
    /\ req[r2].pc = "failed" /\ req[r2].error.name = "NotFoundException"
    /\ bucket = {}

\* C11: in both generation operations a failed object-store upload reaches
\* the caller as the upload error that wraps the storage failure, with the
\* message of the storage failure preserved
C11_UploadFailureWrapped ==
  \A r \in Req :
    req[r].uploadError # NoError =>
      /\ req[r].pc = "failed"
      /\ req[r].error.name = "Error"
      /\ req[r].error.message =
           <<"Certificate upload failed: ">> \o req[r].uploadError.message

\* C12: the first rendering backend a request invokes is the typesetting one
\* (pdfService.generateFromLatex); generateFromHtml is only its fallback
C12_TypesettingFirst ==
  \A r \in Req :
    req[r].backends # <<>> => req[r].backends[1] = "generateFromLatex"

\* a fresh generation for a transaction whose owner has no investment in its
\* property
NoMatchingInvestment(r) ==
  RunsGenerate(r) /\ req[r].branch = "fresh" /\ Matching(Row(r)) = {}

\* C17: when no investment matches the transaction's owner and property, the
\* presentation model that is rendered has tokensPurchased "N/A", only a
\* collaborator failure can stop the generation, and a completed generation
\* has rendered, uploaded, saved the transaction path and returned a signed
\* link for the uploaded object
C17_NoInvestmentStillSucceeds ==
  \A r \in Req :
    NoMatchingInvestment(r) =>
      /\ req[r].renders > 0 => req[r].tokensPurchased = "N/A"
      /\ req[r].pc = "failed" => req[r].error \in CollaboratorErrors
      /\ req[r].pc = "done" =>
           /\ req[r].renders = 2 /\ req[r].uploads = 1
           /\ req[r].tokensPurchased = "N/A"
           /\ req[r].uploadedPath \in bucket
           /\ req[r].transaction \in req[r].savedTransactions
           /\ txPath[req[r].transaction] = req[r].fullPublicUrl
           /\ req[r].result.signedUrl = createSignedUrl(req[r].uploadedPath)

\* a generation for a transaction without matching investment has completed
C17_Witness ==
  \E r \in Req :
    /\ NoMatchingInvestment(r) /\ req[r].pc = "done"
    /\ Row(r).userId # NULL
    /\ req[r].tokensPurchased = "N/A"

OnDemand(r) == req[r].op = "getTransactionCertificate" /\ req[r].nested

\* a getTransactionCertificate request that found a stored path
Retrieval(r) ==
  /\ req[r].op = "getTransactionCertificate" /\ ~req[r].nested
  /\ req[r].pc \in {"get_sign", "done"}

\* C19: getTransactionCertificate (by id or display code) calls the generation
\* at most once, and only after reading a null path of an existing
\* transaction; when it then returns, the result is the signed URL of the
\* transaction's certificate and the stored path is non-null; once a path is
\* stored, a request reads it and returns a signed URL for it without
\* rendering, uploading or saving; for a non-existent transaction it fails
\* with NotFound (unless the lookup itself fails).
C19_OnDemandRetrieval ==
  /\ [](\A r \in Req :
          /\ (OnDemand(r) /\ req[r].pc = "done") =>
               /\ Truthy(txPath[req[r].transaction])
               /\ req[r].result.signedUrl =
                    createSignedUrl(TransactionFilePath(Row(r)))
               /\ req[r].renders <= 2 /\ req[r].uploads <= 1
          /\ Retrieval(r) =>
               /\ Truthy(req[r].loadedPath)
               /\ req[r].renders = 0 /\ req[r].uploads = 0
               /\ req[r].savedTransactions = {}
               /\ req[r].pc = "done" =>
                    req[r].result.signedUrl = createSignedUrl(req[r].relativePath)
          /\ (req[r].op = "getTransactionCertificate" /\ req[r].pc # "get_load"
                /\ FindTransactionRef(req[r].transactionId) = {}) =>
               /\ req[r].pc = "failed"
               /\ req[r].error \in
                    { NotFoundException(
                        <<"Transaction ", ToStr(req[r].transactionId), " not found">>),
                      QueryFailedError }
               /\ req[r].renders = 0 /\ req[r].uploads = 0)
  /\ [][\A r \in Req :
          (req[r].op = "getTransactionCertificate" /\ ~Free(r)
             /\ req'[r].pc = "gen_load" /\ req[r].pc # "gen_load") =>
            /\ req[r].pc = "get_load"
            /\ req'[r].nested
            /\ \E t \in FindTransactionRef(req[r].transactionId) :
                 ~Truthy(txPath[t.id]) /\ req'[r].transactionId = t.id]_vars

\* one request generated the certificate on demand (by display code or id)
\* and another one, reading the transaction afterwards, only signed the
\* stored path
C19_Witness ==
  \E r1, r2 \in Req :
    /\ OnDemand(r1) /\ req[r1].pc = "done" /\ req[r1].renders = 2
    /\ Retrieval(r2) /\ req[r2].pc = "done"
    /\ req[r2].transaction = req[r1].transaction
    /\ req[r2].loadedPath = getCertificatePublicUrl(req[r1].uploadedPath)

\* the stamps the render was given a URL for, those drawn, those given up
Configured(stamp) ==
  IF stamp = "secp" THEN pdf.secpStampUrl # NoUrl ELSE pdf.sbpStampUrl # NoUrl

Drawn(stamp) == \E k \in 1..Len(pdf.images) : pdf.images[k].stamp = stamp

Omitted(stamp) == \E k \in 1..Len(pdf.warnings) : pdf.warnings[k][1] = stamp

\* C13: in both PDFKit renderers no outcome of a stamp download (image,
\* non-200 status, network error, data that is no image) rejects the render:
\* once both downloads have settled the render resolves with non-empty bytes,
\* every configured stamp is either drawn or left out with a warning, and the
\* SBP stamp is requested whatever happened to the SECP stamp
C13_StampFailureNonFatal ==
  /\ pdf.pc # "rejected"
  /\ pdf.pc = "resolved" =>
       /\ pdf.bytes # <<>>
       /\ pdf.bytes[Len(pdf.bytes)] = "footer"
       /\ \A stamp \in {"secp", "sbp"} :
            /\ Configured(stamp) => (Drawn(stamp) = ~Omitted(stamp))
            /\ ~Configured(stamp) => (~Drawn(stamp) /\ ~Omitted(stamp))
            /\ Drawn(stamp) = (\E k \in 1..Len(pdf.bytes) : pdf.bytes[k] = stamp)
  /\ (pdf.pc = "sbp" /\ Configured("secp")) => (Drawn("secp") = ~Omitted("secp"))
  /\ (pdf.pc = "secp") => (~Drawn("sbp") /\ ~Omitted("sbp"))

\* a portfolio render has resolved after a 404 for the SECP stamp, with the SBP
\* stamp drawn in the first stamp position
C13_Witness ==
  /\ pdf.pc = "resolved" /\ pdf.kind = "portfolio"
  /\ pdf.warnings = << <<"secp", DownloadFailed(404)>> >>
  /\ pdf.images = << [stamp |-> "sbp", x |-> StampLeft] >>

\* C20: every download of a stamp eventually resolves or rejects, whatever
\* the servers answer (redirects are followed a bounded number of times)
C20_DownloadSettles ==
  \A stamp \in {"secp", "sbp"} : (pdf.pc = stamp) ~> (pdf.pc # stamp)

\* the sums of a column over all loaded investments, in hundredths
RECURSIVE TokensOf(_)
TokensOf(indices) ==
  IF indices = {} THEN 0
  ELSE LET k == CHOOSE i \in indices : TRUE
       IN  totals.investments[k].tokensPurchased + TokensOf(indices \ {k})

RECURSIVE AmountsOf(_)
AmountsOf(indices) ==
  IF indices = {} THEN 0
  ELSE LET k == CHOOSE i \in indices : TRUE
       IN  totals.investments[k].amountUSDT + AmountsOf(indices \ {k})

OwnedTokens == TokensOf(DOMAIN totals.investments)

Invested == AmountsOf(DOMAIN totals.investments)

\* the quotient a / b in hundredths, rounded half up: truncated, then raised
\* by one when the remainder is at least half of the divisor
Rounded(a, b) ==
  LET h == (Scale * a) \div b
      rest == (Scale * a) % b
  IN  IF 2 * rest >= b THEN h + 1 ELSE h

\* text is the number of hundredths printed as "<whole>.<d><d>"
Printed(text, hundredths) == text = Digits(hundredths)

\* C14: the average price is totalInvested / totalTokens over all confirmed
\* investments when totalTokens > 0 and 0 when totalTokens is 0; it is never
\* the result of a division by zero, and the printed value is the quotient
\* rounded (half up) to two decimals
C14_AveragePrice ==
  totals.pc = "computed" =>
    /\ totals.averagePrice.d # 0
    /\ OwnedTokens > 0 =>
         /\ totals.averagePrice.n * OwnedTokens = Invested * totals.averagePrice.d
         /\ Printed(totals.data.averagePrice, Rounded(Invested, OwnedTokens))
    /\ OwnedTokens = 0 =>
         /\ totals.averagePrice = Zero
         /\ Printed(totals.data.averagePrice, 0)

\* an average over two investments that is rounded up at the half
\* (1.00 / 8.00 = 0.125) has been computed
C14_Witness ==
  /\ totals.pc = "computed"
  /\ Len(totals.investments) = 2 /\ OwnedTokens = 800 /\ Invested = 100
  /\ totals.data.averagePrice = <<"0", ".", "1", "3">>

\* C15: the ownership percentage is totalTokens / property.totalTokens * 100
\* when property.totalTokens > 0 and 0 when it is 0; it is never the result of
\* a division by zero, the totals are computed for every input, and the
\* printed value is the percentage rounded (half up) to two decimals
C15_OwnershipPercentage ==
  totals.pc = "computed" =>
    /\ totals.ownershipPercentage.d # 0
    /\ totals.propertyTotalTokens > 0 =>
         /\ totals.ownershipPercentage.n * totals.propertyTotalTokens
              = 100 * OwnedTokens * totals.ownershipPercentage.d
         /\ Printed(totals.data.ownershipPercentage,
                    Rounded(100 * OwnedTokens, totals.propertyTotalTokens))
    /\ totals.propertyTotalTokens = 0 =>
         /\ totals.ownershipPercentage = Zero
         /\ Printed(totals.data.ownershipPercentage, 0)

\* the totals have been computed for a property with totalTokens = 0 whose
\* user owns tokens
C15_Witness ==
  /\ totals.pc = "computed"
  /\ totals.propertyTotalTokens = 0 /\ OwnedTokens > 0
  /\ totals.data.ownershipPercentage = <<"0", ".", "0", "0">>

\* the two records agree on id, displayCode, userId, propertyId and createdAt
SameIdentity(first, second) ==
  /\ first.id = second.id /\ first.displayCode = second.displayCode
  /\ first.userId = second.userId /\ first.propertyId = second.propertyId
  /\ first.createdAt = second.createdAt

\* C16: two records that agree on id, displayCode, userId, propertyId, amount
\* and createdAt have the same document hash whatever their status,
\* certificatePath and metadata; hashing a record again gives the same hash;
\* records that differ in the amount only have different hashes
C16_DigestDeterminism ==
  digests.pc = "hashed" =>
    /\ (SameIdentity(digests.first, digests.second)
          /\ digests.first.amountUSDT = digests.second.amountUSDT) =>
         digests.firstHash = digests.secondHash
    /\ digests.firstAgain = digests.firstHash
    /\ (SameIdentity(digests.first, digests.second)
          /\ digests.first.amountUSDT # digests.second.amountUSDT) =>
         digests.firstHash # digests.secondHash

\* two records that differ in status, certificatePath and metadata only have
\* been hashed
C16_Witness ==
  /\ digests.pc = "hashed"
  /\ SameIdentity(digests.first, digests.second)
  /\ digests.first.amountUSDT = 100050 /\ digests.second.amountUSDT = 100050
  /\ digests.first.status # digests.second.status
  /\ digests.first.certificatePath # digests.second.certificatePath
  /\ digests.first.metadata # digests.second.metadata
  /\ digests.firstHash = digests.secondHash

\* the positions of the code of generateTransactionCertificate
GenPositions ==
  {"gen_load", "gen_existing_sign", "gen_find_investment", "gen_render_html",
   "gen_render_pdf", "gen_upload", "gen_save_transaction", "gen_find_by_id",
   "gen_find_latest", "gen_save_investment", "gen_sign"}

\* NotStarted, Loading, Existing | Rendering, Uploading, Persisting,
\* LinkIssued | Failed: the positions that may follow each position
GenSuccessors(pc) ==
  CASE pc = "gen_load" ->
         {"gen_existing_sign", "gen_find_investment", "gen_render_html", "failed"}
    [] pc = "gen_existing_sign" -> {"done", "failed"}
    [] pc = "gen_find_investment" -> {"gen_render_html", "failed"}
    [] pc = "gen_render_html" -> {"gen_render_pdf", "failed"}
    [] pc = "gen_render_pdf" -> {"gen_upload", "failed"}
    [] pc = "gen_upload" -> {"gen_save_transaction", "failed"}
    [] pc = "gen_save_transaction" ->
         {"gen_find_by_id", "gen_find_latest", "gen_sign", "failed"}
    [] pc = "gen_find_by_id" -> {"gen_save_investment", "gen_find_latest", "failed"}
    [] pc = "gen_find_latest" -> {"gen_save_investment", "gen_sign", "failed"}
    [] pc = "gen_save_investment" -> {"gen_sign", "failed"}
    [] pc = "gen_sign" -> {"done", "failed"}
    [] OTHER -> {}

\* what a request has done by the time it stands at a position
GenProgress(r) ==
  /\ req[r].pc \in GenPositions \cup {"done", "failed"}
  /\ req[r].branch = "existing" =>
       /\ req[r].pc \in {"gen_existing_sign", "done", "failed"}
       /\ req[r].renders = 0 /\ req[r].uploads = 0
       /\ req[r].savedTransactions = {} /\ req[r].savedInvestments = {}
  /\ req[r].uploads > 0 => req[r].renders = 2
  /\ req[r].savedTransactions # {} =>
       /\ req[r].uploads = 1 /\ req[r].uploadError = NoError
       /\ req[r].filePath \in bucket
  /\ req[r].savedInvestments # {} => req[r].savedTransactions # {}
  /\ (req[r].branch = "fresh" /\ req[r].signRequests # <<>>) =>
       /\ req[r].savedTransactions # {}
       /\ req[r].signRequests = <<req[r].uploadedPath>>
  /\ req[r].pc = "done" => Len(req[r].signRequests) = 1

\* C21: a generateTransactionCertificate request moves from loading either to
\* the existing branch (exactly when a stored path was read) and straight to
\* the signed link, or through render, upload, save of the transaction path,
\* save of the investment path and the signed link, in that order, and may
\* fail at every step; no path field is written before the upload succeeded.
C21_GenerationStateMachine ==
  /\ [](\A r \in Req : (RunsGenerate(r) /\ ~Free(r)) => GenProgress(r))
  /\ [][ /\ \A r \in Req :
              (req[r].pc \in GenPositions /\ req'[r].pc # req[r].pc) =>
                /\ req'[r].pc \in GenSuccessors(req[r].pc)
                /\ (req[r].pc = "gen_load" /\ req'[r].pc # "failed") =>
                     (req'[r].pc = "gen_existing_sign" <=> Truthy(req'[r].loadedPath))
         /\ (txPath' # txPath \/ txSaves' # txSaves) =>
              \E r \in Req : /\ req[r].pc = "gen_save_transaction"
                             /\ req'[r].pc # req[r].pc
                             /\ req[r].uploads = 1 /\ req[r].filePath \in bucket
         /\ invPath' # invPath =>
              \E r \in Req : /\ req[r].pc = "gen_save_investment"
                             /\ req'[r].pc # req[r].pc
                             /\ req[r].savedTransactions # {}
                             /\ req[r].filePath \in bucket ]_vars

C21_Witness ==
  \E r1, r2 \in Req :
    /\ r1 # r2 /\ req[r1].transactionId = req[r2].transactionId
    /\ RunsGenerate(r1) /\ req[r1].pc = "done" /\ req[r1].branch = "fresh"
    /\ req[r1].renders = 2 /\ req[r1].uploads = 1
    /\ req[r1].savedTransactions # {} /\ req[r1].savedInvestments # {}
    /\ req[r1].signRequests = <<req[r1].uploadedPath>>
    /\ RunsGenerate(r2) /\ req[r2].pc = "done" /\ req[r2].branch = "existing"
    /\ req[r2].renders = 0 /\ Len(req[r2].signRequests) = 1

\* C22: in generateTransactionCertificate an error thrown by any step inside
\* the try block reaches the caller as that same error: the request is failed,
\* carries the thrown error unchanged and returns no result; a request that
\* returned a result had no step throw (an unresolved investment throws nothing).
C22_NoSilentSwallowing ==
  \A r \in Req : RunsGenerate(r) =>
    /\ req[r].thrown # NoError =>
         /\ req[r].pc = "failed"
         /\ req[r].error = req[r].thrown
         /\ req[r].result = NoResult
    /\ req[r].pc = "failed" =>
         /\ req[r].thrown # NoError
         /\ \/ req[r].thrown \in CollaboratorErrors
            \/ req[r].thrown.name = "NotFoundException"
    /\ req[r].pc = "done" => req[r].thrown = NoError /\ req[r].error = NoError

C22_Witness ==
  \E r \in Req :
    /\ RunsGenerate(r) /\ req[r].pc = "failed"
    /\ req[r].savedTransactions # {} /\ req[r].savedInvestments = {}
    /\ req[r].investment # NULL
    /\ req[r].thrown = QueryFailedError /\ req[r].error = QueryFailedError
    /\ req[r].signRequests = <<>>

\* C23: every generation event (fresh render of a transaction certificate or
\* of a portfolio summary) gets a certificate identifier that no other
\* generation event has, also when two of them read the same clock value.
C23_UniqueCertificateIds ==
  \A i, j \in DOMAIN ids.issued :
    i # j => ids.issued[i].certificateId # ids.issued[j].certificateId

\* the transactions a portfolio summary lists
Listed(r) ==
  { t \in TransactionRows :
      /\ t.userId = req[r].userId /\ t.propertyId = req[r].actualPropertyId
      /\ t.type = "investment" /\ t.status = "completed" }

\* the transaction a row of the table stands for
RowTransaction(row) == CHOOSE t \in TransactionRows : t.displayCode = row.displayCode

\* C24: a portfolio summary has one row per completed investment-type
\* transaction of the user and property, in ascending order of creation; the
\* tokens of a row are those of a confirmed investment with the userId and
\* propertyId of the row's transaction, or "0" when there is none.
C24_PortfolioRowTokens ==
  \A r \in Req :
    (req[r].op = "generatePortfolioSummary"
       /\ req[r].pc \in {"pf_render_html", "pf_render_pdf", "pf_upload", "pf_sign", "done"}) =>
      /\ Len(req[r].rows) = Cardinality(Listed(r))
      /\ { req[r].rows[k].displayCode : k \in DOMAIN req[r].rows }
           = { t.displayCode : t \in Listed(r) }
      /\ \A k, l \in DOMAIN req[r].rows :
           k < l => RowTransaction(req[r].rows[k]).createdAt
                      <= RowTransaction(req[r].rows[l]).createdAt
      /\ \A k \in DOMAIN req[r].rows :
           LET t == RowTransaction(req[r].rows[k])
               matching == { i \in InvestmentRows :
                               /\ i.status = "confirmed"
                               /\ i.userId = t.userId /\ i.propertyId = t.propertyId }
           IN  IF matching = {} THEN req[r].rows[k].tokens = "0"
               ELSE \E i \in matching :
                      req[r].rows[k].tokens = ToString(i.tokensPurchased)

C24_Witness ==
  \E r \in Req :
    /\ req[r].op = "generatePortfolioSummary" /\ req[r].pc = "done"
    /\ Len(req[r].rows) = 2
    /\ req[r].rows[1] = [displayCode |-> "TXN-8", tokens |-> "10"]
    /\ req[r].rows[2] = [displayCode |-> "TXN-1", tokens |-> "10"]

\* the explicit page breaks a document has got
PageBreaks == { k \in DOMAIN pdf.chunks : pdf.chunks[k] = "addPage" }

\* C25: for both kinds of document and every input, one explicit page break
\* is issued, after all the primary content and before any stamp is fetched
\* or drawn, and the stamps and the footer are emitted on the second page.
C25_StampsOnSecondPage ==
  pdf.pc # "idle" =>
    /\ Cardinality(PageBreaks) = 1
    /\ \A k \in DOMAIN pdf.chunks :
         /\ pdf.chunks[k] \in {"secp", "sbp", "footer"} => \A b \in PageBreaks : b < k
         /\ pdf.chunks[k] \in {"transaction", "portfolio", "blockchain", "tableHeader",
                               "row", "continueOnNewPage"} => \A b \in PageBreaks : k < b
    /\ pdf.page = 2

\* the upload (or the public-URL resolution) of the request was rejected
UploadRejected(r) == RunsGenerate(r) /\ req[r].uploadError # NoError

\* C26: when the upload or the public-URL resolution fails in
\* generateTransactionCertificate, the failing step and the request leave every
\* certificatePath as it was and no signed link is requested; unless another
\* request saved it, the transaction's path is still the one stored at the
\* start, and a request that then loads a null path takes the fresh branch.
C26_UploadFailureLeavesState ==
  /\ [](\A r \in Req : UploadRejected(r) =>
          /\ req[r].pc = "failed"
          /\ req[r].error = UploadFailed(req[r].uploadError)
          /\ req[r].savedTransactions = {} /\ req[r].savedInvestments = {}
          /\ req[r].signRequests = <<>> /\ req[r].result = NoResult
          /\ txSaves[req[r].transaction] = 0 =>
               txPath[req[r].transaction] = StoredPaths[req[r].transaction])
  /\ [][\A r \in Req :
          /\ (req[r].pc = "gen_upload" /\ req'[r].uploadError # NoError) =>
               txPath' = txPath /\ invPath' = invPath /\ txSaves' = txSaves
          /\ (req[r].pc = "gen_load" /\ req'[r].pc \in GenPositions \ {"gen_load"}
                /\ ~Truthy(txPath[req'[r].transaction])) =>
               req'[r].branch = "fresh" /\ req'[r].pc # "gen_existing_sign"]_vars

C26_Witness ==
  \E r1, r2 \in Req :
    /\ r1 # r2 /\ req[r1].transaction = req[r2].transaction
    /\ UploadRejected(r1) /\ req[r1].pc = "failed"
    /\ txPath[req[r1].transaction] = NoPath
    /\ \A i \in Matching(Row(r1)) : invPath[i.id] = NoPath
    /\ RunsGenerate(r2) /\ req[r2].branch = "fresh" /\ req[r2].pc = "gen_upload"

\* the request read a stored certificatePath from the transaction it loaded
FoundStoredPath(r) ==
  /\ req[r].op \in {"generateTransactionCertificate", "getTransactionCertificate"}
  /\ req[r].transaction # NULL /\ Truthy(req[r].loadedPath)

\* C27: a generateTransactionCertificate or getTransactionCertificate request
\* that finds a stored transaction certificatePath writes no transaction and no
\* investment record; every write of a path is a step of a request that has
\* itself rendered and uploaded.  So after a request failed between the two
\* saves, the requests that find the transaction's path leave the investment's
\* path unset.
C27_OnlyUploaderWrites ==
  /\ [](\A r \in Req : FoundStoredPath(r) =>
          /\ req[r].savedTransactions = {} /\ req[r].savedInvestments = {}
          /\ req[r].renders = 0 /\ req[r].uploads = 0)
  /\ [][(txPath' # txPath \/ invPath' # invPath \/ txSaves' # txSaves) =>
          \E r \in Req :
            /\ req'[r].pc # req[r].pc
            /\ req[r].pc \in {"gen_save_transaction", "gen_save_investment"}
            /\ req[r].branch = "fresh" /\ ~Truthy(req[r].loadedPath)
            /\ req[r].renders = 2 /\ req[r].uploads = 1
            /\ req[r].filePath \in bucket
            /\ \A q \in Req \ {r} : req'[q] = req[q]]_vars

C27_Witness ==
  \E r1, r2 \in Req :
    /\ r1 # r2 /\ req[r1].transaction = req[r2].transaction
    /\ RunsGenerate(r1) /\ req[r1].pc = "failed" /\ req[r1].error = QueryFailedError
    /\ req[r1].savedTransactions # {} /\ req[r1].savedInvestments = {}
    /\ FoundStoredPath(r2) /\ req[r2].pc = "done"
    /\ req[r2].loadedPath = txPath[req[r2].transaction]
    /\ Matching(Row(r1)) # {}
    /\ \A i \in Matching(Row(r1)) : invPath[i.id] = NoPath

\* the request loaded a transaction that carries a stored certificatePath but
\* whose user or property relation is missing
StoredButOrphaned(r) ==
  /\ req[r].transaction # NULL /\ Truthy(req[r].loadedPath)
  /\ ~Row(r).user \/ ~Row(r).property

\* C28: generateTransactionCertificate checks the user and the property before
\* the stored path: for a transaction with a stored certificatePath whose user
\* or property is missing it throws NotFound and requests no signed link, while
\* getTransactionCertificate for that transaction checks neither and goes on to
\* sign the stored path.
C28_ExistenceBeforeIdempotency ==
  \A r \in Req : StoredButOrphaned(r) =>
    /\ req[r].op = "generateTransactionCertificate" =>
         /\ req[r].pc = "failed"
         /\ req[r].error \in
              { NotFoundException(<<"Transaction user not found">>),
                NotFoundException(<<"Transaction property not found">>) }
         /\ req[r].signRequests = <<>> /\ req[r].result = NoResult
    /\ req[r].op = "getTransactionCertificate" =>
         /\ req[r].pc \in {"get_sign", "done", "failed"}
         /\ req[r].pc = "failed" => req[r].error = SignError
         /\ req[r].pc # "get_sign" =>
              req[r].signRequests = <<StoredRelativePath(req[r].loadedPath)>>
         /\ req[r].pc = "done" =>
              req[r].result.signedUrl =
                createSignedUrl(StoredRelativePath(req[r].loadedPath))

C28_Witness ==
  \E r1, r2 \in Req :
    /\ req[r1].transaction = req[r2].transaction
    /\ StoredButOrphaned(r1) /\ req[r1].op = "generateTransactionCertificate"
    /\ req[r1].pc = "failed" /\ req[r1].error.name = "NotFoundException"
    /\ StoredButOrphaned(r2) /\ req[r2].op = "getTransactionCertificate"
    /\ req[r2].pc = "done" /\ Truthy(req[r2].result.signedUrl)

RunsPortfolio(r) == req[r].op = "generatePortfolioSummary"

\* C29: generatePortfolioSummary saves nothing and tests no stored path: no
\* step of it changes a certificatePath, every call that returns has rendered
\* and uploaded, and two calls for the same user and property return the same
\* certificatePath, each after an upload of its own to the same object path.
C29_PortfolioNotPersisted ==
  /\ [](\A r \in Req : RunsPortfolio(r) =>
          /\ req[r].savedTransactions = {} /\ req[r].savedInvestments = {}
          /\ req[r].pc = "done" =>
               /\ req[r].renders = 2 /\ req[r].uploads = 1
               /\ req[r].filePath \in bucket
               /\ req[r].result.certificatePath = getCertificatePublicUrl(req[r].filePath))
  /\ [](\A r1, r2 \in Req :
          (/\ RunsPortfolio(r1) /\ req[r1].pc = "done"
           /\ RunsPortfolio(r2) /\ req[r2].pc = "done"
           /\ req[r1].userId = req[r2].userId
           /\ req[r1].actualPropertyId = req[r2].actualPropertyId) =>
            /\ req[r1].filePath = req[r2].filePath
            /\ req[r1].result.certificatePath = req[r2].result.certificatePath)
  /\ [][\A r \in Req :
          /\ (RunsPortfolio(r) /\ req'[r] # req[r] /\ req'[r].op = req[r].op) =>
               txPath' = txPath /\ invPath' = invPath /\ txSaves' = txSaves
          /\ (RunsPortfolio(r) /\ req[r].pc = "pf_render_pdf" /\ req'[r].pc # req[r].pc) =>
               req'[r].pc \in {"pf_upload", "failed"}
          /\ (RunsPortfolio(r) /\ req[r].pc = "pf_upload" /\ req'[r].pc # req[r].pc) =>
               req'[r].uploads = req[r].uploads + 1]_vars

C29_Witness ==
  \E r1, r2 \in Req :
    /\ r1 # r2
    /\ RunsPortfolio(r1) /\ req[r1].pc = "done" /\ req[r1].uploads = 1
    /\ RunsPortfolio(r2) /\ req[r2].pc = "done" /\ req[r2].uploads = 1
    /\ req[r1].userId = req[r2].userId
    /\ req[r1].propertyId # req[r2].propertyId
    /\ req[r1].actualPropertyId = req[r2].actualPropertyId
    /\ req[r1].result.certificatePath = req[r2].result.certificatePath
    /\ txPath = StoredPaths /\ \A i \in InvIds : invPath[i] = NoPath

\* C30: the token count printed on a transaction certificate is that of the
\* most recently created investment of the transaction's owner and property
\* ("N/A" without one), whatever investmentId was passed; a supplied
\* investmentId that is found is the investment whose path is saved, and that
\* can be another investment than the one whose tokens were printed.
C30_PrintedTokensFromLatest ==
  \A r \in Req :
    (RunsGenerate(r) /\ req[r].branch = "fresh" /\ req[r].tokensPurchased # "") =>
      LET matching == Matching(Row(r))
      IN  /\ IF matching = {} THEN req[r].tokensPurchased = "N/A"
             ELSE \E i \in matching :
                    /\ \A j \in matching : j.createdAt <= i.createdAt
                    /\ req[r].tokensPurchased = ToString(i.tokensPurchased)
          /\ (req[r].savedInvestments # {}
                /\ \E i \in InvestmentRows : i.id = req[r].investmentId) =>
               req[r].savedInvestments = {req[r].investmentId}

C30_Witness ==
  \E r \in Req :
    /\ RunsGenerate(r) /\ req[r].pc = "done" /\ req[r].branch = "fresh"
    /\ req[r].investmentId = "i1" /\ req[r].savedInvestments = {"i1"}
    /\ req[r].tokensPurchased = "25"
    /\ \E i \in InvestmentRows : i.id = "i1" /\ ToString(i.tokensPurchased) # "25"
    /\ invPath["i1"] = req[r].result.certificatePath /\ invPath["i2"] = NoPath

====
